---- MODULE Spec2Model ----
(***************************************************************************)
(* Metadata cache, content-type resolution and search handlers of the      *)
(* Contentful GraphQL MCP server (src/src/handlers/graphql-handlers.ts),   *)
(* together with the server start-up and refresh timer (src/src/index.ts). *)
(*                                                                         *)
(* Strings are modelled as sequences of tokens.  The token "Collection"    *)
(* stands for that substring; every other token is an atom that neither    *)
(* contains nor overlaps it, so endsWith, replace and concatenation act on *)
(* tokens exactly as they act on the characters.                            *)
(***************************************************************************)
EXTENDS Integers, Sequences, FiniteSets, TLC

\* ------------------------------------------------------- nullable values
\* null is the empty tuple, a present value v is <<v>>
Null == <<>>

Some(v) == <<v>>

\* --------------------------------------------------------------- strings
Collection == "Collection"

\* String.prototype.endsWith("Collection")
EndsWithCollection(s) == Len(s) > 0 /\ s[Len(s)] = Collection

\* `${s}Collection`
WithCollection(s) == Append(s, Collection)

\* String.prototype.replace("Collection", ""): the first occurrence only
RECURSIVE ReplaceCollection(_)
ReplaceCollection(s) ==
    IF s = <<>> THEN <<>>
    ELSE IF Head(s) = Collection THEN Tail(s)
    ELSE <<Head(s)>> \o ReplaceCollection(Tail(s))

\* the elements of an array
Range(s) == {s[i] : i \in 1..Len(s)}

\* Array.prototype.filter / map over sequences
RECURSIVE SelectIdx(_, _, _)
SelectIdx(s, keep, i) ==
    IF i > Len(s) THEN <<>>
    ELSE (IF keep[i] THEN <<s[i]>> ELSE <<>>) \o SelectIdx(s, keep, i + 1)

\* s.filter(x => keep(x)), keep given as the set of the values to keep
FilterSeq(s, keep) == SelectIdx(s, [i \in 1..Len(s) |-> s[i] \in keep], 1)

\* ------------------------------------------------------- type classifier
\* An introspection type descriptor is the sequence of its levels, outermost
\* first: typeInfo is d, typeInfo.ofType is Tail(d), and an absent (null or
\* undefined) descriptor is <<>>.  A level is [kind, name], name <<>> if absent.
Level(kind, name) == [kind |-> kind, name |-> name]

RECURSIVE formatGraphQLType(_)
formatGraphQLType(typeInfo) ==
    IF typeInfo = <<>> THEN <<"Unknown">>
    ELSE IF Head(typeInfo).kind = "NON_NULL"
        THEN formatGraphQLType(Tail(typeInfo)) \o <<"!">>
    ELSE IF Head(typeInfo).kind = "LIST"
        THEN <<"[">> \o formatGraphQLType(Tail(typeInfo)) \o <<"]">>
    ELSE IF Head(typeInfo).name # <<>> THEN Head(typeInfo).name
    ELSE IF Len(typeInfo) > 1 /\ typeInfo[2].name # <<>> THEN typeInfo[2].name
    ELSE <<"Unknown">>

ScalarTypes == {"String", "Int", "Float", "Boolean", "ID", "DateTime", "JSON"}

\* typeString.includes(scalar) for some scalar name
isScalarType(typeString) ==
    \E i \in 1..Len(typeString) : typeString[i] \in ScalarTypes

\* typeString === "String"
isSearchableTextField(typeString) == typeString = <<"String">>

isReferenceType(typeString) ==
    /\ ~isScalarType(typeString)
    /\ \A i \in 1..Len(typeString) :
          typeString[i] # Collection /\ typeString[i] # "Connection"

\* ------------------------------------------------------------ remote API
\* A root query field of the remote schema: field.name, field.type.kind and
\* field.type.name (<<>> when the response carries no type name).
RootField(name, kind, tname) == [name |-> name, kind |-> kind, tname |-> tname]

Field(name, type) == [name |-> name, type |-> type]

Article == <<"article">>

Topic == <<"topic">>

Asset == <<"asset">>

Note == <<"note">>

\* The fields the remote schema declares for a type, by type name.
RemoteFields(typeName) ==
    IF typeName = Article THEN
        << Field("title", <<Level("SCALAR", <<"String">>)>>),
           Field("slug", <<Level("SCALAR", <<"String">>)>>),
           Field("body", <<Level("SCALAR", <<"String">>)>>),
           Field("author", <<Level("SCALAR", <<"String">>)>>),
           Field("tags", <<Level("LIST", <<>>), Level("SCALAR", <<"String">>)>>),
           Field("requiredText",
                 <<Level("NON_NULL", <<>>), Level("SCALAR", <<"String">>)>>) >>
    ELSE IF typeName = WithCollection(Article) THEN
        << Field("total", <<Level("NON_NULL", <<>>), Level("SCALAR", <<"Int">>)>>),
           Field("items", <<Level("NON_NULL", <<>>), Level("LIST", <<>>),
                            Level("OBJECT", <<"Article">>)>>) >>
    ELSE IF typeName = Topic THEN
        << Field("name", <<Level("SCALAR", <<"String">>)>>) >>
    ELSE IF typeName = Asset THEN
        << Field("width", <<Level("SCALAR", <<"Int">>)>>) >>
    ELSE IF typeName = Note THEN
        << Field("text", <<Level("SCALAR", <<"String">>)>>) >>
    ELSE
        << Field("items", <<Level("LIST", <<>>), Level("OBJECT", <<"Topic">>)>>) >>

\* The root query fields a discovery response can list.
RootLists ==
    { <<>>,
      << RootField(WithCollection(Article), "OBJECT", <<>>),
         RootField(<<"asset">>, "OBJECT", <<>>) >>,
      << RootField(WithCollection(Article), "OBJECT", <<>>),
         RootField(WithCollection(Topic), "OBJECT", <<>>) >> }

\* a discovery response that lists three collections
ThreeRoots ==
    << RootField(WithCollection(Topic), "OBJECT", <<>>),
       RootField(WithCollection(Asset), "OBJECT", <<>>),
       RootField(WithCollection(Note), "OBJECT", <<>>) >>

\* A request that yields no data: a non-2xx status, a 2xx body with top-level
\* errors, or a rejected fetch.
TransportFailures == {"http_error", "gql_errors", "throw"}

\* the answers to the discovery query
DiscoveryAnswers ==
    [kind : TransportFailures, roots : {<<>>}] \cup [kind : {"ok"}, roots : RootLists]

\* the answers to a __type(name:) query: no data, no such type, or a type
TypeAnswers == TransportFailures \cup {"found", "not_found"}

\* The response carries the type's name, which the code reads from it.  The
\* API reports the article type in its own spelling (Article for article, as
\* src/test has PageArticle for pageArticle) and every other type under the
\* name it is asked for.
Capital(token) == IF token = "article" THEN "Article" ELSE token

\* data.__type.name of a response that answers the request for typeName
ReportedName(typeName) ==
    IF typeName = <<>> THEN typeName
    ELSE [typeName EXCEPT ![1] = Capital(typeName[1])]

\* process.env as one call reads it: is SPACE_ID set, is the delivery token set
Envs == [spaceId : BOOLEAN, token : BOOLEAN]

\* the settings of a call that returns before it reads them
Unread == [spaceId |-> FALSE, token |-> FALSE]

Configured == [spaceId |-> TRUE, token |-> TRUE]

\* the most items one search response carries
MaxItems == 1

\* the answers to a search query: no data, a body that is not JSON, or items
SearchAnswers ==
    [kind : TransportFailures \cup {"bad_json"}, items : {0}]
        \cup [kind : {"ok"}, items : 0..MaxItems]

\* the arguments of a call: args.contentType, args.contentTypes and args.fields
\* (Null when not given) and cfg, the settings the call finds: cfg.spaceId
\* says whether args.spaceId || process.env.SPACE_ID is non-empty
Args(contentType, contentTypes, fields, cfg) ==
    [contentType |-> contentType, contentTypes |-> contentTypes, fields |-> fields,
     cfg |-> cfg]

NoArgs == Args(<<>>, Null, Null, Unread)

\* an outgoing request: its kind and the type or root field it names
Request(kind, name) == [kind |-> kind, name |-> name]

\* --------------------------------------------------------- tool responses
NoSchema == [contentType |-> <<>>, fields |-> <<>>]

NoQuery == [operation |-> <<>>, queryName |-> <<>>, conditions |-> <<>>,
            selection |-> <<>>]

NoExample == [header |-> <<>>, collectionName |-> <<>>, singularName |-> <<>>,
              scalarFields |-> <<>>, referenceFields |-> <<>>]

\* { content: [{ type: "text", text }], isError? }: the text is kept as the
\* parts it is built from; parts names the sections of a text that a query
\* builder writes
OkResponse == [isError |-> FALSE, threw |-> FALSE, msg |-> "", names |-> <<>>,
               contentTypes |-> <<>>, schema |-> NoSchema, cached |-> FALSE,
               items |-> 0, results |-> <<>>, total |-> 0, withResults |-> 0,
               query |-> NoQuery, example |-> NoExample, parts |-> <<>>]

ErrorResponse(msg, names) ==
    [OkResponse EXCEPT !.isError = TRUE, !.msg = msg, !.names = names]

\* a rejected promise / thrown exception, to be caught by the caller
Thrown == [OkResponse EXCEPT !.threw = TRUE]

\* ------------------------------------------------------- schema fetcher
ContentTypeSummary(field) ==
    [name |-> ReplaceCollection(field.name), queryName |-> field.name]

IsCollectionField(field) ==
    \/ EndsWithCollection(field.name)
    \/ field.kind = "OBJECT" /\ field.tname # <<>> /\ EndsWithCollection(field.tname)

MapSummaries(fields) == [i \in 1..Len(fields) |-> ContentTypeSummary(fields[i])]

loadContentTypesFromAPI(answer) ==
    IF answer.kind = "throw" THEN Thrown
    ELSE IF answer.kind = "http_error" THEN ErrorResponse("HTTP Error", <<>>)
    ELSE IF answer.kind = "gql_errors" THEN ErrorResponse("errors", <<>>)
    ELSE [OkResponse EXCEPT
            !.contentTypes = MapSummaries(FilterSeq(answer.roots,
                                    {f \in Range(answer.roots) : IsCollectionField(f)}))]

\* the introspection query selects type, type.ofType and type.ofType.ofType
QueriedLevels == 3

Truncate(typeInfo) ==
    SubSeq(typeInfo, 1, IF Len(typeInfo) < QueriedLevels THEN Len(typeInfo)
                        ELSE QueriedLevels)

\* the schema parsed from a response: the name it reports and the fields of
\* the type that was asked for
SchemaOf(reported, typeName) ==
    [contentType |-> reported,
     fields |-> [i \in 1..Len(RemoteFields(typeName)) |->
                   Field(RemoteFields(typeName)[i].name,
                         formatGraphQLType(Truncate(RemoteFields(typeName)[i].type)))]]

\* a request that retries whatever the name ends with
SchemaRequestAlwaysRetry(contentType, answer) ==
    IF answer = "not_found" THEN [retry |-> TRUE, response |-> OkResponse]
    ELSE IF answer = "found"
        THEN [retry |-> FALSE,
              response |-> [OkResponse EXCEPT !.schema =
                               SchemaOf(ReportedName(contentType), contentType)]]
    ELSE [retry |-> FALSE, response |-> ErrorResponse("HTTP Error", <<>>)]

\* One request of loadContentTypeSchemaFromAPI and what it decides: a final
\* response, or the recursive call with the Collection suffix (retry).
SchemaRequest(contentType, answer) ==
    IF answer = "throw" THEN [retry |-> FALSE, response |-> Thrown]
    ELSE IF answer = "http_error"
        THEN [retry |-> FALSE, response |-> ErrorResponse("HTTP Error", <<>>)]
    ELSE IF answer = "gql_errors"
        THEN [retry |-> FALSE, response |-> ErrorResponse("errors", <<>>)]
    ELSE IF answer = "not_found" THEN
        IF ~EndsWithCollection(contentType)
        THEN [retry |-> TRUE, response |-> OkResponse]
        ELSE [retry |-> FALSE,
              response |-> ErrorResponse("not found in the schema", <<contentType>>)]
    ELSE [retry |-> FALSE,
          response |-> [OkResponse EXCEPT !.schema =
                           SchemaOf(ReportedName(contentType), contentType)]]

\* how many answers one call of loadContentTypeSchemaFromAPI is offered
MaxRequests == 3

\* loadContentTypeSchemaFromAPI run to completion: answers[k] answers its k-th
\* request.  Returns the response and the type names requested, in order.
RECURSIVE loadContentTypeSchemaFromAPI(_, _)
loadContentTypeSchemaFromAPI(contentType, answers) ==
    LET step == SchemaRequest(contentType, Head(answers))
    IN  IF step.retry /\ Len(answers) > 1
        THEN LET rest == loadContentTypeSchemaFromAPI(WithCollection(contentType),
                                                      Tail(answers))
             IN  [response |-> rest.response, calls |-> <<contentType>> \o rest.calls]
        ELSE [response |-> step.response, calls |-> <<contentType>>]

\* ------------------------------------------------------------------ state
VARIABLES
    contentTypesCache,        \* Null or <<list of ContentTypeSummary>>
    contentTypeSchemasCache,  \* Map: resolved type name -> schema
    lastCacheUpdate,          \* Null or <<time>>
    graphqlSchema,            \* Null or <<schema>>, used to validate queries
    loads,                    \* the calls of loadContentfulMetadata in flight
    clock,                    \* what new Date() returns next
    serverPc,                 \* runServer: "init" or "running"
    transports,               \* StreamableHttpServer.transports: session id -> transport
    transportObjects,         \* the StreamableHTTPServerTransport objects created so far
    httpPc,                   \* StreamableHttpServer: "created", "listening" or "stopped"
    search,                   \* the smartSearch call that awaits its queries
    lastOp                    \* the latest event and, for a tool call, its outcome

vars == <<contentTypesCache, contentTypeSchemasCache, lastCacheUpdate, graphqlSchema,
          loads, clock, serverPc, transports, transportObjects, httpPc, search,
          lastOp>>

httpVars == <<transports, transportObjects, httpPc>>

cacheVars == <<contentTypesCache, contentTypeSchemasCache, lastCacheUpdate>>

\* the calls of loadContentfulMetadata that can be in flight at once
LoadIds == {1, 2}

\* the last value of the clock that is told apart
MaxClock == 2

EmptyMap == [k \in {} |-> NoSchema]

\* Map.prototype.set
MapSet(m, key, value) ==
    [k \in (DOMAIN m) \cup {key} |-> IF k = key THEN value ELSE m[k]]

IdleLoad == [pc |-> "idle", types |-> <<>>, req |-> <<>>]

\* no smartSearch call is awaiting: target, textFields and limit are the
\* locals of the call, st and results the state of its promises
IdleSearch == [pc |-> "idle", filter |-> <<>>, target |-> <<>>, textFields |-> <<>>,
               st |-> <<>>, answers |-> <<>>, results |-> <<>>, atStart |-> <<>>]

InFlight(l) == loads[l].pc \in {"discovering", "fetching"}

\* The latest event: op names it; load says which load it belongs to (0 if
\* none), answer is what the remote API answered to a discovery or schema
\* introspection request, and outcome is, when a load finishes, how each of
\* its per-type fetches ended; args, response and calls describe a tool call,
\* its result and the requests it sent; script is what the remote API was
\* ready to answer to the requests of a live schema lookup, in order, or what
\* became of the query of each target type of a search; order is the order in
\* which the search queries were answered.
Event(op, load, answer, outcome) ==
    [op |-> op, load |-> load, answer |-> answer, outcome |-> outcome,
     args |-> NoArgs, response |-> OkResponse, calls |-> <<>>, script |-> <<>>,
     order |-> <<>>]

ToolCall(op, args, response, calls) ==
    [op |-> op, load |-> 0, answer |-> "", outcome |-> <<>>,
     args |-> args, response |-> response, calls |-> calls, script |-> <<>>,
     order |-> <<>>]

Init ==
    /\ contentTypesCache = Null
    /\ contentTypeSchemasCache = EmptyMap
    /\ lastCacheUpdate = Null
    /\ graphqlSchema = Null
    /\ loads = [l \in LoadIds |-> IdleLoad]
    /\ clock = 1
    /\ serverPc = "init"
    /\ transports = <<>>
    /\ transportObjects = <<>>
    /\ httpPc = "created"
    /\ search = IdleSearch
    /\ lastOp = Event("none", 0, "", <<>>)

\* new Date(), and the passing of time
Tick == IF clock < MaxClock THEN clock + 1 ELSE clock

\* -------------------------------------------------------- metadata cache
getCachedContentTypes == contentTypesCache

getCachedContentTypeSchema(contentType) ==
    IF contentType \in DOMAIN contentTypeSchemasCache
    THEN Some(contentTypeSchemasCache[contentType]) ELSE Null

\* availability that asks for the content-type list alone
isCacheAvailableByList == contentTypesCache # Null

isCacheAvailable ==
    contentTypesCache # Null /\ Cardinality(DOMAIN contentTypeSchemasCache) > 0

getCacheStatus ==
    [available |-> isCacheAvailable,
     contentTypesCount |-> IF contentTypesCache # Null THEN Len(contentTypesCache[1]) ELSE 0,
     schemasCount |-> Cardinality(DOMAIN contentTypeSchemasCache),
     lastUpdate |-> lastCacheUpdate]

\* a clear that forgets the schemas
clearCacheKeepingSchemas ==
    /\ contentTypesCache' = Null
    /\ lastCacheUpdate' = Null
    /\ lastOp' = Event("clear", 0, "", <<>>)
    /\ UNCHANGED <<contentTypeSchemasCache, graphqlSchema, loads, clock, serverPc, httpVars, search>>

clearCache ==
    /\ contentTypesCache' = Null
    /\ contentTypeSchemasCache' = EmptyMap
    /\ lastCacheUpdate' = Null
    /\ lastOp' = Event("clear", 0, "", <<>>)
    /\ UNCHANGED <<graphqlSchema, loads, clock, serverPc, httpVars, search>>

\* loadContentfulMetadata, up to its first await: the discovery request is sent
StartLoad(l) ==
    /\ loads[l].pc \in {"idle", "done"}
    /\ loads' = [loads EXCEPT ![l] = [IdleLoad EXCEPT !.pc = "discovering"]]
    /\ lastOp' = Event("loadStart", l, "", <<>>)
    /\ UNCHANGED <<cacheVars, graphqlSchema, clock, serverPc, httpVars, search>>

\* a load is called while no other load is in flight; it takes the first slot
LoadStart(l) ==
    /\ \A k \in LoadIds : ~InFlight(k) /\ l <= k
    /\ StartLoad(l)

\* a load that returns early on a rejected request only
DiscoveryFailedIfThrown(result) == result.threw

\* does the discovery result make load return early (isError, or the catch)
DiscoveryFailed(result) == result.threw \/ result.isError

\* the per-type request that contentTypesCache.map starts for one content type
FirstRequest(ct) == [name |-> ct.name, st |-> "pending"]

\* a fan-in that is satisfied by the first request that settles
AnySettled(req) == \E i \in 1..Len(req) : req[i].st # "pending"

AllSettled(req) == \A i \in 1..Len(req) : req[i].st # "pending"

\* loadContentfulMetadata resumes with the discovery response
DiscoveryResponse(l, answer) ==
    LET result == loadContentTypesFromAPI(answer)
        types == result.contentTypes
    IN  /\ loads[l].pc = "discovering"
        /\ IF DiscoveryFailed(result)
           THEN /\ loads' = [loads EXCEPT ![l].pc = "done"]
                /\ lastOp' = Event("loadFailed", l, answer.kind, <<>>)
                /\ UNCHANGED <<cacheVars, clock>>
           ELSE /\ contentTypesCache' = Some(types)
                /\ UNCHANGED contentTypeSchemasCache
                /\ IF types = <<>>
                   THEN /\ lastCacheUpdate' = Some(clock)
                        /\ clock' = Tick
                        /\ loads' = [loads EXCEPT ![l].pc = "done"]
                        /\ lastOp' = Event("loadFinished", l, answer.kind, <<>>)
                   ELSE /\ loads' = [loads EXCEPT
                              ![l].pc = "fetching", ![l].types = types,
                              ![l].req = [i \in 1..Len(types) |-> FirstRequest(types[i])]]
                        /\ lastOp' = Event("loadDiscovered", l, answer.kind, <<>>)
                        /\ UNCHANGED <<lastCacheUpdate, clock>>
        /\ UNCHANGED <<graphqlSchema, serverPc, httpVars, search>>

\* a callback whose failure empties the schema map
StoreSchemaOrReset(schemas, response) ==
    IF ~response.threw /\ ~response.isError
    THEN MapSet(schemas, response.schema.contentType, response.schema)
    ELSE EmptyMap

\* the body of the per-type callback after its await: what the schema map
\* holds once the result of loadContentTypeSchemaFromAPI has been handled
StoreSchema(schemas, response) ==
    IF ~response.threw /\ ~response.isError
    THEN MapSet(schemas, response.schema.contentType, response.schema)
    ELSE schemas

\* one per-type schema request of load l is answered
SchemaResponse(l, i, answer) ==
    LET r == loads[l].req[i]
        step == SchemaRequest(r.name, answer)
        ok == ~step.response.threw /\ ~step.response.isError
        settled == IF step.retry
                   THEN [r EXCEPT !.name = WithCollection(r.name)]
                   ELSE [r EXCEPT !.st = IF ok THEN "ok" ELSE "fail"]
        req == [loads[l].req EXCEPT ![i] = settled]
    IN  /\ loads[l].pc = "fetching"
        /\ i \in 1..Len(loads[l].req)
        /\ r.st = "pending"
        /\ contentTypeSchemasCache' =
              IF step.retry THEN contentTypeSchemasCache
              ELSE StoreSchema(contentTypeSchemasCache, step.response)
        /\ IF AllSettled(req)
           THEN /\ lastCacheUpdate' = Some(clock)
                /\ clock' = Tick
                /\ loads' = [loads EXCEPT ![l] = [IdleLoad EXCEPT !.pc = "done"]]
                /\ lastOp' = Event("loadFinished", l, answer,
                                   [k \in 1..Len(req) |-> req[k].st])
           ELSE /\ loads' = [loads EXCEPT ![l].req = req]
                /\ lastOp' = Event("loadSchema", l, "", <<>>)
                /\ UNCHANGED <<lastCacheUpdate, clock>>
        /\ UNCHANGED <<contentTypesCache, graphqlSchema, serverPc, httpVars, search>>

\* ---------------------------------------------------------------- server
\* fetchGraphQLSchema: the introspected schema, or Null on any failure
fetchGraphQLSchema(cfg, answer) ==
    IF ~cfg.token THEN Null
    ELSE IF answer = "ok" THEN Some("schema") ELSE Null

\* loadGraphQLSchema of index.ts: the value of graphqlSchema after it
loadGraphQLSchema(cfg, answer) ==
    IF ~cfg.spaceId \/ ~cfg.token THEN graphqlSchema
    ELSE IF fetchGraphQLSchema(cfg, answer) # Null
         THEN fetchGraphQLSchema(cfg, answer)
         ELSE graphqlSchema

\* setGraphQLSchema: a caller hands over an introspected schema
setGraphQLSchema ==
    /\ graphqlSchema' = Some("schema")
    /\ lastOp' = Event("setGraphQLSchema", 0, "", <<>>)
    /\ UNCHANGED <<cacheVars, loads, clock, serverPc, httpVars, search>>

\* runServer: loads the GraphQL schema, connects the transport, arms the timer
runServer(cfg, answer) ==
    /\ serverPc = "init"
    /\ graphqlSchema' = loadGraphQLSchema(cfg, answer)
    /\ serverPc' = "running"
    /\ lastOp' = [Event("runServer", 0, answer, <<>>) EXCEPT !.args.cfg = cfg]
    /\ UNCHANGED <<cacheVars, loads, clock, httpVars, search>>

\* the callback of setInterval(..., 5 * 60 * 1000)
TimerTick(cfg, answer) ==
    /\ serverPc = "running"
    /\ graphqlSchema' = loadGraphQLSchema(cfg, answer)
    /\ lastOp' = [Event("timerTick", 0, answer, <<>>) EXCEPT !.args.cfg = cfg]
    /\ UNCHANGED <<cacheVars, loads, clock, serverPc, httpVars, search>>

\* --------------------------------------------------------------- handlers
\* the names a caller asks for
ArgNames == {Article, Topic, WithCollection(Topic)}

\* the answers offered to one loadContentTypeSchemaFromAPI call: nothing is
\* requested after the first answer other than "not_found"
AnswerScripts ==
    { a \in [1..MaxRequests -> TypeAnswers] :
        \A j, k \in 1..MaxRequests : (j < k /\ a[j] # "not_found") => a[k] = "not_found" }

TypeRequests(names) == [k \in 1..Len(names) |-> Request("type", names[k])]

AllNotFound == [k \in 1..MaxRequests |-> "not_found"]

ToolOps == {"listContentTypes", "getContentTypeSchema", "getExample", "executeQuery",
            "smartSearch", "buildSearchQuery", "callTool"}

\* A tool call changes no variable but lastOp, so a call that follows another
\* call starts from the very state that one started from: the model takes a
\* tool call only in a state entered by an event that is not a tool call.
Fresh == lastOp.op \notin ToolOps

\* a tool call that keeps the schema it fetched from the API in the cache
RespondStoring(call) ==
    /\ lastOp' = call
    /\ contentTypeSchemasCache' =
          IF call.calls # <<>> /\ ~call.response.isError
                /\ call.response.schema # NoSchema
          THEN MapSet(contentTypeSchemasCache, call.response.schema.contentType,
                      call.response.schema)
          ELSE contentTypeSchemasCache
    /\ UNCHANGED <<contentTypesCache, lastCacheUpdate, graphqlSchema, loads, clock,
                   serverPc, httpVars, search>>

\* a tool call leaves every variable but lastOp alone
Respond(call) ==
    /\ lastOp' = call
    /\ UNCHANGED <<cacheVars, graphqlSchema, loads, clock, serverPc, httpVars, search>>

\* a listContentTypes that asks the API without looking at the settings
listContentTypesResultUnchecked(cfg, answer) ==
    IF isCacheAvailable /\ getCachedContentTypes # Null
    THEN [response |-> [OkResponse EXCEPT !.contentTypes = getCachedContentTypes[1],
                                          !.cached = TRUE],
          calls |-> <<>>]
    ELSE [response |-> IF loadContentTypesFromAPI(answer).threw
                       THEN ErrorResponse("Error fetching content types", <<>>)
                       ELSE loadContentTypesFromAPI(answer),
          calls |-> <<Request("discovery", <<>>)>>]

\* graphqlHandlers.listContentTypes
listContentTypesResult(cfg, answer) ==
    IF isCacheAvailable /\ getCachedContentTypes # Null
    THEN [response |-> [OkResponse EXCEPT !.contentTypes = getCachedContentTypes[1],
                                          !.cached = TRUE],
          calls |-> <<>>]
    ELSE IF ~cfg.spaceId
    THEN [response |-> ErrorResponse("Space ID is required", <<>>), calls |-> <<>>]
    ELSE IF ~cfg.token
    THEN [response |-> ErrorResponse("CDA token is required", <<>>), calls |-> <<>>]
    ELSE [response |-> IF loadContentTypesFromAPI(answer).threw
                       THEN ErrorResponse("Error fetching content types", <<>>)
                       ELSE loadContentTypesFromAPI(answer),
          calls |-> <<Request("discovery", <<>>)>>]

\* The call draws the settings and the remote answer where the handler reads
\* them: none when it answers from the cache.
listContentTypes ==
    /\ Fresh
    /\ \E cfg \in IF isCacheAvailable THEN {Unread} ELSE Envs :
       \E answer \in IF cfg = Configured THEN DiscoveryAnswers
                     ELSE {[kind |-> "ok", roots |-> <<>>]} :
          LET result == listContentTypesResult(cfg, answer)
          IN  Respond(ToolCall("listContentTypes", Args(<<>>, Null, Null, cfg),
                               result.response, result.calls))

\* the response built from a cached schema
CachedSchemaResponse(schema) ==
    [response |-> [OkResponse EXCEPT !.schema = schema, !.cached = TRUE],
     calls |-> <<>>]

\* a resolver that tries the suffixed name before the exact one
getContentTypeSchemaSuffixFirst(contentType, cfg, answers) ==
    IF /\ isCacheAvailable
       /\ ~EndsWithCollection(contentType)
       /\ getCachedContentTypeSchema(WithCollection(contentType)) # Null
    THEN CachedSchemaResponse(getCachedContentTypeSchema(WithCollection(contentType))[1])
    ELSE IF isCacheAvailable /\ getCachedContentTypeSchema(contentType) # Null
    THEN CachedSchemaResponse(getCachedContentTypeSchema(contentType)[1])
    ELSE [response |-> ErrorResponse("Space ID is required", <<>>), calls |-> <<>>]

\* a resolver that looks a name ending with Collection up without the suffix
getContentTypeSchemaBareFirst(contentType, cfg, answers) ==
    IF /\ isCacheAvailable
       /\ EndsWithCollection(contentType)
       /\ getCachedContentTypeSchema(ReplaceCollection(contentType)) # Null
    THEN CachedSchemaResponse(getCachedContentTypeSchema(ReplaceCollection(contentType))[1])
    ELSE getContentTypeSchemaSuffixFirst(contentType, cfg, answers)

\* graphqlHandlers.getContentTypeSchema
getContentTypeSchemaResult(contentType, cfg, answers) ==
    LET live == loadContentTypeSchemaFromAPI(contentType, answers)
    IN  IF isCacheAvailable /\ getCachedContentTypeSchema(contentType) # Null
        THEN CachedSchemaResponse(getCachedContentTypeSchema(contentType)[1])
        ELSE IF /\ isCacheAvailable
                /\ ~EndsWithCollection(contentType)
                /\ getCachedContentTypeSchema(WithCollection(contentType)) # Null
        THEN CachedSchemaResponse(
                 getCachedContentTypeSchema(WithCollection(contentType))[1])
        ELSE IF ~cfg.spaceId
        THEN [response |-> ErrorResponse("Space ID is required", <<>>), calls |-> <<>>]
        ELSE IF ~cfg.token
        THEN [response |-> ErrorResponse("CDA token is required", <<>>), calls |-> <<>>]
        ELSE [response |-> IF live.response.threw
                           THEN ErrorResponse("Error fetching content type schema", <<>>)
                           ELSE live.response,
              calls |-> TypeRequests(live.calls)]

\* does getContentTypeSchema get past its cache lookups for this name
ReadsPastCache(contentType) ==
    getContentTypeSchemaResult(contentType, Unread, AllNotFound).response.isError

getContentTypeSchema(contentType) ==
    /\ Fresh
    /\ \E cfg \in IF ReadsPastCache(contentType) THEN Envs ELSE {Unread} :
       \E answers \in IF cfg = Configured THEN AnswerScripts ELSE {AllNotFound} :
          LET result == getContentTypeSchemaResult(contentType, cfg, answers)
          IN  Respond([ToolCall("getContentTypeSchema",
                                Args(contentType, Null, Null, cfg),
                                result.response, result.calls)
                          EXCEPT !.script = IF cfg = Configured THEN answers ELSE <<>>])

NoAnswer == [kind |-> "ok", items |-> 0]

FieldNames(fields) == [i \in 1..Len(fields) |-> fields[i].name]

IsSearchableField(field) == isSearchableTextField(field.type)

IsScalarField(field) == isScalarType(field.type)

\* c.toLowerCase() on the first letter: the API's Article is article
Lower(token) == IF token = "Article" THEN "article" ELSE token

\* schemaData.contentType.replace(/^[A-Z]/, c => c.toLowerCase())
LowerFirst(typeName) ==
    IF typeName = <<>> THEN <<>> ELSE <<Lower(Head(typeName))>> \o Tail(typeName)

\* field.type.replace("!", ""): the first occurrence only
RECURSIVE ReplaceBang(_)
ReplaceBang(typeString) ==
    IF typeString = <<>> THEN <<>>
    ELSE IF Head(typeString) = "!" THEN Tail(typeString)
    ELSE <<Head(typeString)>> \o ReplaceBang(Tail(typeString))

\* the example document getExample writes for a schema
ExampleFor(schemaData, includeRelations) ==
    LET isCollection == EndsWithCollection(schemaData.contentType)
        contentTypeName == IF isCollection THEN schemaData.contentType
                           ELSE LowerFirst(schemaData.contentType)
        references == FilterSeq(schemaData.fields,
                          {f \in Range(schemaData.fields) : isReferenceType(f.type)})
    IN  [header |-> schemaData.contentType,
         collectionName |-> IF isCollection THEN contentTypeName
                            ELSE WithCollection(contentTypeName),
         singularName |-> IF isCollection THEN ReplaceCollection(contentTypeName)
                          ELSE contentTypeName,
         scalarFields |-> FieldNames(FilterSeq(schemaData.fields,
                              {f \in Range(schemaData.fields) : IsScalarField(f)})),
         referenceFields |-> IF includeRelations
                             THEN [i \in 1..Len(references) |->
                                     [name |-> references[i].name,
                                      type |-> ReplaceBang(references[i].type)]]
                             ELSE <<>>]

\* a getExample that asks the API for the schema whatever the cache holds
getExampleResultLive(contentType, includeRelations, cfg, answers) ==
    LET live == loadContentTypeSchemaFromAPI(contentType, answers)
    IN  IF live.response.threw \/ live.response.isError
        THEN [response |-> ErrorResponse("Error fetching content type schema", <<>>),
              calls |-> TypeRequests(live.calls)]
        ELSE [response |-> [OkResponse EXCEPT !.example =
                               ExampleFor(live.response.schema, includeRelations)],
              calls |-> TypeRequests(live.calls)]

\* graphqlHandlers.getExample: the schema comes from getContentTypeSchema, whose
\* error response is returned as it is
getExampleResult(contentType, includeRelations, cfg, answers) ==
    LET schemaResult == getContentTypeSchemaResult(contentType, cfg, answers)
    IN  IF schemaResult.response.isError THEN schemaResult
        ELSE [response |-> [OkResponse EXCEPT !.example =
                               ExampleFor(schemaResult.response.schema, includeRelations)],
              calls |-> schemaResult.calls]

\* The call draws what getContentTypeSchema draws.
getExample(contentType, includeRelations) ==
    /\ Fresh
    /\ \E cfg \in IF ReadsPastCache(contentType) THEN Envs ELSE {Unread} :
       \E answers \in IF cfg = Configured THEN AnswerScripts ELSE {AllNotFound} :
          LET result == getExampleResult(contentType, includeRelations, cfg, answers)
          IN  Respond([ToolCall("getExample",
                                [contentType |-> contentType, contentTypes |-> Null,
                                 fields |-> Null, cfg |-> cfg,
                                 includeRelations |-> includeRelations],
                                result.response, result.calls)
                          EXCEPT !.script = IF cfg = Configured THEN answers ELSE <<>>])

\* What graphql's parse and validate make of a query, given a schema.
Validities == {"valid", "invalid", "parse_error"}

\* an executeQuery that parses the query and does not validate it
executeQueryResultUnvalidated(queryName, cfg, validity, answer) ==
    IF ~cfg.spaceId
    THEN [response |-> ErrorResponse("Space ID is required", <<>>), calls |-> <<>>]
    ELSE IF ~cfg.token
    THEN [response |-> ErrorResponse("CDA token is required", <<>>), calls |-> <<>>]
    ELSE IF graphqlSchema # Null /\ validity = "parse_error"
    THEN [response |-> ErrorResponse("GraphQL query parsing error", <<>>), calls |-> <<>>]
    ELSE [response |->
             IF answer.kind = "http_error" THEN ErrorResponse("HTTP Error", <<>>)
             ELSE IF answer.kind \in {"throw", "bad_json"}
                 THEN ErrorResponse("Error executing GraphQL query", <<>>)
             ELSE IF answer.kind = "gql_errors" THEN ErrorResponse("errors", <<>>)
             ELSE [OkResponse EXCEPT !.items = answer.items],
          calls |-> <<Request("search", queryName)>>]

\* graphqlHandlers.executeQuery for a query that names the root field
\* queryName: the response, and the requests sent
executeQueryResult(queryName, cfg, validity, answer) ==
    IF ~cfg.spaceId
    THEN [response |-> ErrorResponse("Space ID is required", <<>>), calls |-> <<>>]
    ELSE IF ~cfg.token
    THEN [response |-> ErrorResponse("CDA token is required", <<>>), calls |-> <<>>]
    ELSE IF graphqlSchema # Null /\ validity = "parse_error"
    THEN [response |-> ErrorResponse("GraphQL query parsing error", <<>>), calls |-> <<>>]
    ELSE IF graphqlSchema # Null /\ validity = "invalid"
    THEN [response |-> ErrorResponse("validation errors", <<>>), calls |-> <<>>]
    ELSE [response |->
             IF answer.kind = "http_error" THEN ErrorResponse("HTTP Error", <<>>)
             ELSE IF answer.kind \in {"throw", "bad_json"}
                 THEN ErrorResponse("Error executing GraphQL query", <<>>)
             ELSE IF answer.kind = "gql_errors" THEN ErrorResponse("errors", <<>>)
             ELSE [OkResponse EXCEPT !.items = answer.items],
          calls |-> <<Request("search", queryName)>>]

\* the root fields a caller's query names
QueryNames == {WithCollection(Topic)}

\* the access-token argument of a call: none, or a token of the caller's own
TokenArgs == {Null, Some("arg-cda-token")}

\* const accessToken = process.env.CONTENTFUL_DELIVERY_ACCESS_TOKEN, as sent in
\* the Authorization header: cfg.token says whether the environment has one
accessToken(cdaToken, cfg) == IF cfg.token THEN "env-cda-token" ELSE ""

\* The call draws its token argument, the settings, what graphql's parse and
\* validate make of the query, and the remote answer when the query is sent;
\* each request is recorded with the bearer token of its Authorization header.
executeQuery(queryName) ==
    /\ Fresh
    /\ \E cdaToken \in TokenArgs, cfg \in Envs, validity \in Validities :
       \E answer \in IF executeQueryResult(queryName, cfg, validity, NoAnswer).calls # <<>>
                     THEN SearchAnswers ELSE {NoAnswer} :
          LET result == executeQueryResult(queryName, cfg, validity, answer)
          IN  Respond([ToolCall("executeQuery",
                                [contentType |-> <<>>, contentTypes |-> Null,
                                 fields |-> Null, cfg |-> cfg, cdaToken |-> cdaToken],
                                result.response,
                                [k \in 1..Len(result.calls) |->
                                    [kind |-> result.calls[k].kind,
                                     name |-> result.calls[k].name,
                                     bearer |-> accessToken(cdaToken, cfg)]])
                          EXCEPT !.script = <<[validity |-> validity, answer |-> answer]>>])

\* the text fields smartSearch finds for a content type: Null when the type
\* has no cached schema under its listed name
TextFields(ct) ==
    IF getCachedContentTypeSchema(ct.name) = Null THEN Null
    ELSE LET fields == getCachedContentTypeSchema(ct.name)[1].fields
         IN  Some(FilterSeq(fields, {f \in Range(fields) : IsSearchableField(f)}))

\* a callback that goes on to executeQuery for every type with a cached schema
QueriedWithAnySchema(ct) == TextFields(ct) # Null

\* does the search callback of smartSearch reach executeQuery for this type
Queried(ct) == TextFields(ct) # Null /\ TextFields(ct)[1] # <<>>

\* a callback that returns an entry for every query it sent, failed or empty
SearchOneKeepingFailures(ct, validity, answer) ==
    LET exec == executeQueryResult(ct.queryName, Configured, validity, answer)
    IN  IF ~Queried(ct) THEN [results |-> <<>>, calls |-> <<>>]
        ELSE [results |-> << [contentType |-> ct.name,
                              items |-> IF exec.response.isError THEN 0
                                        ELSE exec.response.items,
                              fields |-> FieldNames(TextFields(ct)[1])] >>,
              calls |-> exec.calls]

\* the callback of targetContentTypes.map: the entry this type contributes to
\* results (<<>> for null) and the requests it sends
SearchOne(ct, validity, answer) ==
    LET exec == executeQueryResult(ct.queryName, Configured, validity, answer)
    IN  IF ~Queried(ct) THEN [results |-> <<>>, calls |-> <<>>]
        ELSE IF ~exec.response.isError /\ exec.response.items > 0
        THEN [results |-> << [contentType |-> ct.name, items |-> exec.response.items,
                              fields |-> FieldNames(TextFields(ct)[1])] >>,
              calls |-> exec.calls]
        ELSE [results |-> <<>>, calls |-> exec.calls]

RECURSIVE Concat(_, _)
Concat(parts, i) == IF i > Len(parts) THEN <<>> ELSE parts[i] \o Concat(parts, i + 1)

\* args.contentTypes ? contentTypes.filter(ct => includes(ct.name)) : contentTypes
TargetContentTypes(contentTypes, filter) ==
    IF filter = Null THEN contentTypes
    ELSE SelectIdx(contentTypes,
                   [i \in 1..Len(contentTypes) |-> contentTypes[i].name \in filter[1]], 1)

\* Promise.all: each promise fills the slot of its own index when it settles
RECURSIVE Settle(_, _, _)
Settle(slots, values, order) ==
    IF order = <<>> THEN slots
    ELSE Settle([slots EXCEPT ![Head(order)] = values[Head(order)]], values, Tail(order))

\* a collection of the values in the order in which they settle
PromiseAllAsSettled(values, order) == [k \in 1..Len(order) |-> values[order[k]]]

PromiseAll(values, order) == Settle([i \in 1..Len(values) |-> <<>>], values, order)

\* The order in which the callbacks of smartSearch settle: those that send no
\* query return at once, in index order; the others settle as they are answered.
SettleOrder(target, order) ==
    SelectIdx([i \in 1..Len(target) |-> i],
              [i \in 1..Len(target) |-> ~Queried(target[i])], 1) \o order

\* a smartSearch that counts as searched only the types it sent a query for
smartSearchResultCountingQueried(filter, cfg, validities, answers, order) ==
    IF ~isCacheAvailable
    THEN [response |-> ErrorResponse("Smart search requires cached metadata", <<>>),
          calls |-> <<>>]
    ELSE IF ~cfg.spaceId \/ ~cfg.token
    THEN [response |-> ErrorResponse("Space ID and CDA token are required", <<>>),
          calls |-> <<>>]
    ELSE IF getCachedContentTypes = Null
    THEN [response |-> ErrorResponse("No content types available in cache", <<>>),
          calls |-> <<>>]
    ELSE LET target == TargetContentTypes(getCachedContentTypes[1], filter)
             each == [i \in 1..Len(target) |->
                        SearchOne(target[i], validities[i], answers[i])]
             results == PromiseAll([i \in 1..Len(target) |-> each[i].results],
                                   SettleOrder(target, order))
             validResults == Concat(results, 1)
             calls == Concat([i \in 1..Len(target) |-> each[i].calls], 1)
         IN  [response |-> [OkResponse EXCEPT !.results = validResults,
                                              !.total = Len(calls),
                                              !.withResults = Len(validResults)],
              calls |-> calls]

\* graphqlHandlers.smartSearch: validities[i] and answers[i] are what the
\* validation and the remote API make of the query for the i-th target type,
\* order lists the queried types as their queries are answered
smartSearchResult(filter, cfg, validities, answers, order) ==
    IF ~isCacheAvailable
    THEN [response |-> ErrorResponse("Smart search requires cached metadata", <<>>),
          calls |-> <<>>]
    ELSE IF ~cfg.spaceId \/ ~cfg.token
    THEN [response |-> ErrorResponse("Space ID and CDA token are required", <<>>),
          calls |-> <<>>]
    ELSE IF getCachedContentTypes = Null
    THEN [response |-> ErrorResponse("No content types available in cache", <<>>),
          calls |-> <<>>]
    ELSE LET target == TargetContentTypes(getCachedContentTypes[1], filter)
             each == [i \in 1..Len(target) |->
                        SearchOne(target[i], validities[i], answers[i])]
             results == PromiseAll([i \in 1..Len(target) |-> each[i].results],
                                   SettleOrder(target, order))
             validResults == Concat(results, 1)
         IN  [response |-> [OkResponse EXCEPT !.results = validResults,
                                              !.total = Len(target),
                                              !.withResults = Len(validResults)],
              calls |-> Concat([i \in 1..Len(target) |-> each[i].calls], 1)]

\* the content-type filters a caller passes to smartSearch
Filters == {Null, Some({Article}), Some({Topic})}

\* the target types of a call that gets as far as selecting them
TargetsOf(filter, cfg) ==
    IF isCacheAvailable /\ cfg = Configured
    THEN TargetContentTypes(getCachedContentTypes[1], filter) ELSE <<>>

\* what can happen to the query for one target type: nothing is drawn for a
\* type that is not queried, and no answer for a query that fails validation
SearchChoices(ct) ==
    IF ~Queried(ct) THEN {[validity |-> "valid", answer |-> NoAnswer]}
    ELSE [validity : {"valid"}, answer : SearchAnswers]
            \cup (IF graphqlSchema = Null THEN {}
                  ELSE {[validity |-> "invalid", answer |-> NoAnswer]})

RECURSIVE SearchScripts(_, _)
SearchScripts(target, i) ==
    IF i > Len(target) THEN {<<>>}
    ELSE { <<c>> \o rest : c \in SearchChoices(target[i]),
                           rest \in SearchScripts(target, i + 1) }

\* the orders in which the queries of the queried target types can be answered
AnswerOrders(target) ==
    LET queried == {i \in 1..Len(target) : Queried(target[i])}
    IN  {o \in [1..Cardinality(queried) -> queried] :
            \A j, k \in 1..Cardinality(queried) : j # k => o[j] # o[k]}

\* The call draws the settings when the cache is available, and a validation
\* verdict and a remote answer for each target type that is queried.
smartSearch(filter) ==
    /\ Fresh
    /\ \E cfg \in IF isCacheAvailable THEN Envs ELSE {Unread} :
       \E script \in SearchScripts(TargetsOf(filter, cfg), 1) :
       \E order \in AnswerOrders(TargetsOf(filter, cfg)) :
          LET result == smartSearchResult(filter, cfg,
                            [i \in 1..Len(script) |-> script[i].validity],
                            [i \in 1..Len(script) |-> script[i].answer], order)
          IN  Respond([ToolCall("smartSearch", Args(<<>>, filter, Null, cfg),
                                result.response, result.calls)
                          EXCEPT !.script = script, !.order = order])

\* the cached schema buildSearchQuery works on: Null when neither name is cached
ActualSchema(contentType) ==
    IF getCachedContentTypeSchema(contentType) # Null
    THEN getCachedContentTypeSchema(contentType)
    ELSE getCachedContentTypeSchema(WithCollection(contentType))

\* cachedContentTypes?.find(...)?.queryName || the name with Collection
QueryNameFor(contentType, contentTypeName) ==
    LET matches(ct) == \/ ct.name = contentType
                       \/ ct.name = contentTypeName
                       \/ ct.queryName = contentTypeName
        found == IF getCachedContentTypes = Null THEN <<>>
                 ELSE FilterSeq(getCachedContentTypes[1],
                                {ct \in Range(getCachedContentTypes[1]) : matches(ct)})
    IN  IF found # <<>> /\ found[1].queryName # <<>> THEN found[1].queryName
        ELSE IF EndsWithCollection(contentTypeName) THEN contentTypeName
        ELSE WithCollection(contentTypeName)

\* a query builder that goes straight to the schema lookup
buildSearchQueryUngated(contentType, fields) ==
    IF ActualSchema(contentType) = Null
    THEN ErrorResponse("not found in cache", <<contentType>>)
    ELSE OkResponse

\* a query builder that reports an empty search as the fields it looked for
buildSearchQueryResultNamingSearched(contentType, fields) ==
    IF ~isCacheAvailable
    THEN ErrorResponse("Query builder requires cached metadata", <<>>)
    ELSE IF ActualSchema(contentType) = Null
    THEN ErrorResponse("not found in cache", <<contentType>>)
    ELSE LET actualSchema == ActualSchema(contentType)[1]
             searchable == FilterSeq(actualSchema.fields,
                              {f \in Range(actualSchema.fields) : IsSearchableField(f)})
             fieldsToSearch == IF fields # Null /\ fields[1] # {}
                               THEN FilterSeq(searchable,
                                      {f \in Range(searchable) : f.name \in fields[1]})
                               ELSE searchable
         IN  IF fieldsToSearch = <<>>
             THEN ErrorResponse("No searchable text fields found",
                                FieldNames(searchable))
             ELSE [OkResponse EXCEPT !.query =
                     [operation |-> <<"Search">>
                                       \o ReplaceCollection(actualSchema.contentType),
                      queryName |-> QueryNameFor(contentType, actualSchema.contentType),
                      conditions |-> FieldNames(fieldsToSearch),
                      selection |-> FieldNames(FilterSeq(actualSchema.fields,
                          {f \in Range(actualSchema.fields) : IsScalarField(f)}))]]

\* a query builder that takes every field whose type mentions String
buildSearchQueryResultAnyString(contentType, fields) ==
    IF ~isCacheAvailable
    THEN ErrorResponse("Query builder requires cached metadata", <<>>)
    ELSE IF ActualSchema(contentType) = Null
    THEN ErrorResponse("not found in cache", <<contentType>>)
    ELSE LET actualSchema == ActualSchema(contentType)[1]
             searchable == FilterSeq(actualSchema.fields,
                              {f \in Range(actualSchema.fields) :
                                  \E i \in 1..Len(f.type) : f.type[i] = "String"})
             fieldsToSearch == IF fields # Null /\ fields[1] # {}
                               THEN FilterSeq(searchable,
                                      {f \in Range(searchable) : f.name \in fields[1]})
                               ELSE searchable
         IN  IF fieldsToSearch = <<>>
             THEN ErrorResponse("No searchable text fields found",
                                FieldNames(actualSchema.fields))
             ELSE [OkResponse EXCEPT !.query =
                     [operation |-> <<"Search">>
                                       \o ReplaceCollection(actualSchema.contentType),
                      queryName |-> QueryNameFor(contentType, actualSchema.contentType),
                      conditions |-> FieldNames(fieldsToSearch),
                      selection |-> FieldNames(FilterSeq(actualSchema.fields,
                          {f \in Range(actualSchema.fields) : IsScalarField(f)}))]]

\* graphqlHandlers.buildSearchQuery
buildSearchQueryResult(contentType, fields) ==
    IF ~isCacheAvailable
    THEN ErrorResponse("Query builder requires cached metadata", <<>>)
    ELSE IF ActualSchema(contentType) = Null
    THEN ErrorResponse("not found in cache", <<contentType>>)
    ELSE LET actualSchema == ActualSchema(contentType)[1]
             searchable == FilterSeq(actualSchema.fields,
                              {f \in Range(actualSchema.fields) : IsSearchableField(f)})
             listed(field) == field.name \in fields[1]
             fieldsToSearch == IF fields # Null /\ fields[1] # {}
                               THEN FilterSeq(searchable,
                                              {f \in Range(searchable) : listed(f)})
                               ELSE searchable
         IN  IF fieldsToSearch = <<>>
             THEN ErrorResponse("No searchable text fields found",
                                FieldNames(actualSchema.fields))
             ELSE [OkResponse EXCEPT !.query =
                     [operation |-> <<"Search">>
                                       \o ReplaceCollection(actualSchema.contentType),
                      queryName |-> QueryNameFor(contentType, actualSchema.contentType),
                      conditions |-> FieldNames(fieldsToSearch),
                      selection |-> FieldNames(FilterSeq(actualSchema.fields,
                          {f \in Range(actualSchema.fields) : IsScalarField(f)}))],
                   !.parts = <<"query">>]

\* the field allow-lists a caller passes to buildSearchQuery
FieldLists == {Null, Some({}), Some({"title", "tags"}), Some({"total"}),
               Some({"tags", "requiredText"})}

\* the names a caller passes to buildSearchQuery: those of ArgNames and the
\* article type in the spelling of the API
BuilderNames == ArgNames \cup {ReportedName(Article)}

buildSearchQuery(contentType, fields) ==
    /\ Fresh
    /\ Respond(ToolCall("buildSearchQuery", Args(contentType, Null, fields, Unread),
                     buildSearchQueryResult(contentType, fields), <<>>))

\* --------------------------------------------------------- specifications
\* the cache and its loads
CacheNext ==
    \/ clearCache
    \/ \E l \in LoadIds : LoadStart(l)
    \/ \E l \in LoadIds, answer \in DiscoveryAnswers : DiscoveryResponse(l, answer)
    \/ \E l \in LoadIds : \E i \in 1..Len(loads[l].req), answer \in TypeAnswers :
          SchemaResponse(l, i, answer)

\* the answers to the schema introspection a configured server sends
IntrospectionAnswers(cfg) ==
    IF cfg = Configured THEN TransportFailures \cup {"ok"} ELSE {""}

ServerNext ==
    \/ \E cfg \in Envs : \E answer \in IntrospectionAnswers(cfg) : runServer(cfg, answer)
    \/ \E cfg \in Envs : \E answer \in IntrospectionAnswers(cfg) : TimerTick(cfg, answer)

Next == CacheNext

Spec == Init /\ [][Next]_vars

\* the server process next to the cache
NextServer == CacheNext \/ ServerNext

SpecServer == Init /\ [][NextServer]_vars

\* the schema tools next to the cache
NextResolve ==
    \/ CacheNext
    \/ \E contentType \in ArgNames : getContentTypeSchema(contentType)

SpecResolve == Init /\ [][NextResolve]_vars

\* the search tools next to the cache and the validation schema
NextSearch ==
    \/ CacheNext
    \/ setGraphQLSchema
    \/ \E filter \in Filters : smartSearch(filter)
    \/ \E contentType \in ArgNames, fields \in FieldLists :
          buildSearchQuery(contentType, fields)

SpecSearch == Init /\ [][NextSearch]_vars

\* loadContentfulMetadata is called again while the call before it is still
\* awaiting a response: the first call takes slot 1, the overlapping one slot 2
OverlappingStart(l) ==
    /\ IF l = 1 THEN \A k \in LoadIds : ~InFlight(k) ELSE InFlight(l - 1)
    /\ StartLoad(l)

\* two calls of loadContentfulMetadata whose awaits interleave
NextOverlap ==
    \/ \E l \in LoadIds : OverlappingStart(l)
    \/ \E l \in LoadIds, answer \in DiscoveryAnswers : DiscoveryResponse(l, answer)
    \/ \E l \in LoadIds : \E i \in 1..Len(loads[l].req), answer \in TypeAnswers :
          SchemaResponse(l, i, answer)

SpecOverlap == Init /\ [][NextOverlap]_vars

\* a caller that runs clearCache() and then loadContentfulMetadata(), again
\* and again, each load awaited before the next clear
LoadAfterClear(l) ==
    /\ lastOp.op = "clear"
    /\ LoadStart(l)

NextClearLoad ==
    \/ (\A k \in LoadIds : ~InFlight(k)) /\ clearCache
    \/ \E l \in LoadIds : LoadAfterClear(l)
    \/ \E l \in LoadIds, answer \in DiscoveryAnswers : DiscoveryResponse(l, answer)
    \/ \E l \in LoadIds : \E i \in 1..Len(loads[l].req), answer \in TypeAnswers :
          SchemaResponse(l, i, answer)

SpecClearLoad == Init /\ [][NextClearLoad]_vars

\* the four tools that read the settings, next to the cache and the schema
NextTools ==
    \/ CacheNext
    \/ setGraphQLSchema
    \/ listContentTypes
    \/ \E contentType \in ArgNames : getContentTypeSchema(contentType)
    \/ \E queryName \in QueryNames : executeQuery(queryName)
    \/ \E filter \in Filters : smartSearch(filter)

SpecTools == Init /\ [][NextTools]_vars

\* the two query synthesizers next to the cache
NextSynth ==
    \/ CacheNext
    \/ \E contentType \in BuilderNames, fields \in FieldLists :
          buildSearchQuery(contentType, fields)
    \/ \E contentType \in ArgNames, includeRelations \in BOOLEAN :
          getExample(contentType, includeRelations)

SpecSynth == Init /\ [][NextSynth]_vars

\* ------------------------------------------------------------- dispatch
\* getTools / getAllTools: the names of the tools the server announces
getAllTools == {"graphql_list_content_types", "graphql_get_content_type_schema",
                "graphql_get_example", "graphql_query"}

\* getHandler: the handler a tool name is mapped to, Null for undefined
getHandler(name) ==
    IF name = "graphql_query" THEN Some("executeQuery")
    ELSE IF name = "graphql_list_content_types" THEN Some("listContentTypes")
    ELSE IF name = "graphql_get_content_type_schema" THEN Some("getContentTypeSchema")
    ELSE IF name = "graphql_get_example" THEN Some("getExample")
    ELSE Null

\* the tool names a client sends
ToolNames == getAllTools \cup {"smart_search", "build_search_query", "no_such_tool"}

\* a dispatcher that lets the exception through to the transport
DispatchRethrows(message) == Thrown

\* the catch of the CallToolRequestSchema handler: `Error: ${error.message}`
DispatchError(message) == ErrorResponse("Error", message)

\* the arguments of a call that ended in the dispatcher: the tool named, and
\* whether a handler was found and threw
DispatchArgs(name, handler) ==
    [contentType |-> <<>>, contentTypes |-> Null, fields |-> Null, cfg |-> Unread,
     tool |-> name, handler |-> handler]

\* the CallToolRequestSchema handler: an unknown name throws inside the try;
\* the result of a handler is returned as it is; an exception of the handler
\* is caught
callTool(name) ==
    /\ Fresh
    /\ IF getHandler(name) = Null
       THEN Respond(ToolCall("callTool", DispatchArgs(name, "none"),
                             DispatchError(<<"Unknown tool", name>>), <<>>))
       ELSE \/ getHandler(name) = Some("executeQuery")
                 /\ \E queryName \in QueryNames : executeQuery(queryName)
            \/ getHandler(name) = Some("listContentTypes") /\ listContentTypes
            \/ getHandler(name) = Some("getContentTypeSchema")
                 /\ \E contentType \in ArgNames : getContentTypeSchema(contentType)
            \/ getHandler(name) = Some("getExample")
                 /\ \E contentType \in ArgNames, includeRelations \in BOOLEAN :
                       getExample(contentType, includeRelations)
            \/ Respond(ToolCall("callTool", DispatchArgs(name, "threw"),
                                DispatchError(<<"message">>), <<>>))

\* the server's tool dispatch next to a cache loaded from an API that answers
\* a schema request with the type or an HTTP error
NextDispatch ==
    \/ clearCache
    \/ \E l \in LoadIds : LoadStart(l)
    \/ \E l \in LoadIds, answer \in DiscoveryAnswers : DiscoveryResponse(l, answer)
    \/ \E l \in LoadIds : \E i \in 1..Len(loads[l].req), answer \in {"found", "http_error"} :
          SchemaResponse(l, i, answer)
    \/ \E name \in ToolNames : callTool(name)

SpecDispatch == Init /\ [][NextDispatch]_vars

\* the filters passed to smartSearch over the three collections
FanOutFilters == {Null, Some({Note, Topic}), Some({Asset})}

\* smartSearch next to a cache loaded from an API that lists three
\* collections and answers a schema request with the type or an HTTP error
NextFanOut ==
    \/ clearCache
    \/ \E l \in LoadIds : LoadStart(l)
    \/ \E l \in LoadIds, kind \in {"ok", "http_error"} :
          DiscoveryResponse(l, [kind |-> kind,
                                roots |-> IF kind = "ok" THEN ThreeRoots ELSE <<>>])
    \/ \E l \in LoadIds : \E i \in 1..Len(loads[l].req), answer \in {"found", "http_error"} :
          SchemaResponse(l, i, answer)
    \/ setGraphQLSchema
    \/ \E filter \in FanOutFilters : smartSearch(filter)

SpecFanOut == Init /\ [][NextFanOut]_vars

\* ------------------------------------------------------------------ claims
\* C1, as stated: whenever no load is in flight the cache is either fully
\* empty (null content-type list, no schema, not available) or holds at least
\* one content type together with at least one schema.
C1_EmptyOrPopulated ==
    (\A l \in LoadIds : ~InFlight(l)) =>
        \/ /\ contentTypesCache = Null
           /\ DOMAIN contentTypeSchemasCache = {}
           /\ ~getCacheStatus.available
        \/ /\ contentTypesCache # Null
           /\ Len(contentTypesCache[1]) >= 1
           /\ Cardinality(DOMAIN contentTypeSchemasCache) >= 1

\* C1, amended: the cache is available exactly when the content-type list is
\* non-null and at least one schema is cached; after construction and after a
\* clear it is fully empty and not available; and when no load is in flight a
\* non-null list comes with lastUpdate set.  The list may be empty or come with
\* no schema at all.
C1_CacheShape ==
    /\ getCacheStatus.available <=>
          (contentTypesCache # Null /\ DOMAIN contentTypeSchemasCache # {})
    /\ getCacheStatus.schemasCount = Cardinality(DOMAIN contentTypeSchemasCache)
    /\ lastOp.op \in {"none", "clear"} =>
          /\ contentTypesCache = Null
          /\ DOMAIN contentTypeSchemasCache = {}
          /\ lastCacheUpdate = Null
          /\ ~getCacheStatus.available
    /\ ((\A l \in LoadIds : ~InFlight(l)) /\ contentTypesCache # Null) =>
          lastCacheUpdate # Null

\* C1: a load has finished and left a content-type list with no schema
C1_ListWithoutSchemas ==
    /\ lastOp.op = "loadFinished"
    /\ \A l \in LoadIds : ~InFlight(l)
    /\ contentTypesCache # Null
    /\ Len(contentTypesCache[1]) >= 1
    /\ DOMAIN contentTypeSchemasCache = {}
    /\ ~getCacheStatus.available

\* C2: when the discovery request of a load fails (HTTP error, GraphQL errors
\* or a rejected request), the load ends without changing the content-type
\* list, the schemas or lastUpdate.
C2_FailedDiscoveryKeepsCache ==
    [][\A l \in LoadIds :
          (/\ loads[l].pc = "discovering"
           /\ loads'[l].pc # "discovering"
           /\ lastOp'.answer \in TransportFailures)
          => (UNCHANGED cacheVars /\ loads'[l].pc = "done")]_vars

\* C2: a discovery failure has ended a load over a populated cache
C2_FailedOverPopulatedCache ==
    /\ lastOp.op = "loadFailed"
    /\ lastOp.answer \in TransportFailures
    /\ isCacheAvailable
    /\ lastCacheUpdate # Null

\* C3, as stated: after a load whose discovery succeeded, a type whose schema
\* fetch failed is absent from schemas, under every name it goes by.
C3_FailedTypesAbsent ==
    (lastOp.op = "loadFinished" /\ contentTypesCache # Null) =>
        \A i \in 1..Len(lastOp.outcome) :
            LET name == contentTypesCache[1][i].name
            IN  lastOp.outcome[i] = "fail" =>
                   {name, WithCollection(name), ReportedName(name),
                    ReportedName(WithCollection(name))}
                       \cap DOMAIN contentTypeSchemasCache = {}

\* C3, amended: a successful discovery stores the content-type list; each
\* answer to a per-type request settles that request alone; a fetch that
\* succeeds adds its schema under the name the API reports and changes no other
\* entry; a fetch that fails, and a retry, leave schemas as they are, so an
\* entry cached earlier for the failed type stays.
C3_FetchesAreIndependent ==
    [][\A l \in LoadIds :
          /\ (loads[l].pc = "discovering" /\ loads'[l].pc = "fetching")
                => contentTypesCache' = Some(loads'[l].types)
          /\ (loads[l].pc = "fetching" /\ loads'[l] # loads[l]) =>
                LET before == loads[l].req
                    after == IF loads'[l].pc = "fetching"
                             THEN [k \in 1..Len(before) |-> loads'[l].req[k].st]
                             ELSE lastOp'.outcome
                    settled == {k \in 1..Len(before) : after[k] # before[k].st}
                IN  /\ contentTypesCache' = contentTypesCache
                    /\ Len(after) = Len(before)
                    /\ Cardinality(settled) <= 1
                    /\ settled = {} => contentTypeSchemasCache' = contentTypeSchemasCache
                    /\ \A k \in settled :
                          LET key == ReportedName(before[k].name)
                          IN  /\ after[k] = "fail" =>
                                    contentTypeSchemasCache' = contentTypeSchemasCache
                              /\ after[k] = "ok" =>
                                    /\ DOMAIN contentTypeSchemasCache' =
                                          DOMAIN contentTypeSchemasCache \cup {key}
                                    /\ contentTypeSchemasCache'[key].contentType = key
                                    /\ \A other \in DOMAIN contentTypeSchemasCache \ {key} :
                                          contentTypeSchemasCache'[other] =
                                             contentTypeSchemasCache[other]]_vars

\* C3: a load has finished with one fetch failed and its sibling's schema stored
C3_SiblingStored ==
    /\ lastOp.op = "loadFinished"
    /\ lastOp.outcome = <<"fail", "ok">>
    /\ contentTypesCache # Null
    /\ Len(contentTypesCache[1]) = 2
    /\ DOMAIN contentTypeSchemasCache = {Topic}

\* C4: a server step made with the space id and the token configured, the
\* start-up or a tick of the refresh timer, starts a load of the metadata cache.
C4_ServerStartsLoad ==
    [][(lastOp'.op \in {"runServer", "timerTick"} /\ lastOp'.args.cfg = Configured)
          => \E l \in LoadIds : loads[l].pc # "discovering" /\ loads'[l].pc = "discovering"]_vars

\* C5: after a load completes, every listed content type whose schema fetch
\* succeeded in that pass has a cached schema under its listed name, and
\* getContentTypeSchema for that name is served from the cache (cached: true)
\* without a request.
C5_ListedNameFindsSchema ==
    (lastOp.op = "loadFinished" /\ contentTypesCache # Null) =>
        \A i \in 1..Len(lastOp.outcome) :
            lastOp.outcome[i] = "ok" =>
                LET name == contentTypesCache[1][i].name
                    served == getContentTypeSchemaResult(name, Unread, AllNotFound)
                IN  /\ getCachedContentTypeSchema(name) # Null
                    /\ served.response.cached
                    /\ served.calls = <<>>

\* C6: with no validation schema loaded, a smartSearch with no type filter and
\* with the settings present sends exactly one search query for every listed
\* content type that has a cached schema with a searchable field, sends nothing
\* but search queries, and lists results under listed names.
C6_OneQueryPerSearchableType ==
    (/\ lastOp.op = "smartSearch"
     /\ lastOp.args.contentTypes = Null
     /\ lastOp.args.cfg = Configured
     /\ graphqlSchema = Null
     /\ isCacheAvailable) =>
        /\ \A k \in 1..Len(lastOp.calls) : lastOp.calls[k].kind = "search"
        /\ \A i \in 1..Len(contentTypesCache[1]) :
              LET ct == contentTypesCache[1][i]
                  keys == {ct.name, ReportedName(ct.name)}
                             \cap DOMAIN contentTypeSchemasCache
                  searchable(key) ==
                      \E j \in 1..Len(contentTypeSchemasCache[key].fields) :
                          isSearchableTextField(contentTypeSchemasCache[key].fields[j].type)
              IN  (\E key \in keys : searchable(key)) =>
                     Cardinality({k \in 1..Len(lastOp.calls) :
                                     lastOp.calls[k] = Request("search", ct.queryName)}) = 1
        /\ \A k \in 1..Len(lastOp.response.results) :
              \E i \in 1..Len(contentTypesCache[1]) :
                  lastOp.response.results[k].contentType = contentTypesCache[1][i].name

C9_ResolutionOrder ==
    lastOp.op = "getContentTypeSchema" =>
        LET name == lastOp.args.contentType
            available == contentTypesCache # Null /\ DOMAIN contentTypeSchemasCache # {}
            exact == available /\ name \in DOMAIN contentTypeSchemasCache
            suffixed == /\ available
                        /\ ~exact
                        /\ ~EndsWithCollection(name)
                        /\ WithCollection(name) \in DOMAIN contentTypeSchemasCache
        IN  /\ exact =>
                  /\ lastOp.response.cached
                  /\ ~lastOp.response.isError
                  /\ lastOp.response.schema = contentTypeSchemasCache[name]
                  /\ lastOp.calls = <<>>
            /\ suffixed =>
                  /\ lastOp.response.cached
                  /\ ~lastOp.response.isError
                  /\ lastOp.response.schema = contentTypeSchemasCache[WithCollection(name)]
                  /\ lastOp.calls = <<>>
            /\ (~exact /\ ~suffixed) =>
                  /\ ~lastOp.response.cached
                  /\ lastOp.args.cfg = Configured =>
                        (lastOp.calls # <<>> /\ lastOp.calls[1] = Request("type", name))
                  /\ lastOp.args.cfg # Configured => lastOp.calls = <<>>

\* C9: a name has been resolved from the cache under the name with Collection
C9_SuffixedHit ==
    /\ lastOp.op = "getContentTypeSchema"
    /\ lastOp.args.contentType = Topic
    /\ Topic \notin DOMAIN contentTypeSchemasCache
    /\ lastOp.response.cached
    /\ lastOp.response.schema.contentType = WithCollection(Topic)
    /\ lastOp.calls = <<>>

\* C10: a live lookup sends at most two requests, the first for the name
\* given.  When that type is not found and the name does not end with
\* Collection it sends exactly one more, for the name with Collection, and
\* returns that type's schema, named as the API reports it (the name with
\* Collection where the API spells it as asked), or the not-found error if it
\* is not found either.  In every other case it sends no second request.
C10_RetryOnceWithCollection ==
    (lastOp.op = "getContentTypeSchema" /\ lastOp.calls # <<>>) =>
        LET name == lastOp.args.contentType
            calls == lastOp.calls
            response == lastOp.response
            retried == lastOp.script[1] = "not_found" /\ ~EndsWithCollection(name)
        IN  /\ Len(calls) <= 2
            /\ calls[1] = Request("type", name)
            /\ retried <=> Len(calls) = 2
            /\ retried =>
                  /\ calls[2] = Request("type", WithCollection(name))
                  /\ lastOp.script[2] = "found" =>
                        /\ ~response.isError
                        /\ response.schema.contentType = ReportedName(WithCollection(name))
                        /\ ReportedName(name) = name =>
                              response.schema.contentType = WithCollection(name)
                  /\ lastOp.script[2] = "not_found" =>
                        /\ response.isError
                        /\ response.msg = "not found in the schema"
            /\ (lastOp.script[1] = "not_found" /\ EndsWithCollection(name)) =>
                  /\ response.isError
                  /\ response.msg = "not found in the schema"

\* C10: a live lookup has found the type under the name with Collection on its
\* second request
C10_FoundOnRetry ==
    /\ lastOp.op = "getContentTypeSchema"
    /\ lastOp.args.contentType = Topic
    /\ Len(lastOp.calls) = 2
    /\ lastOp.script[1] = "not_found"
    /\ lastOp.script[2] = "found"
    /\ ~lastOp.response.isError
    /\ ~lastOp.response.cached
    /\ lastOp.response.schema.contentType = WithCollection(Topic)

\* C11: when a type is found neither under the requested name nor under the
\* name with Collection, the not-found response of getContentTypeSchema names
\* both names that were tried.
C11_NotFoundNamesBoth ==
    (/\ lastOp.op = "getContentTypeSchema"
     /\ lastOp.response.isError
     /\ lastOp.response.msg = "not found in the schema"
     /\ ~EndsWithCollection(lastOp.args.contentType)) =>
        {lastOp.args.contentType, WithCollection(lastOp.args.contentType)}
            \subseteq Range(lastOp.response.names)

\* C12 (as stated): a successful smartSearch sends exactly one query for each
\* target type whose cached schema has a searchable field and none for the
\* others, so that with one searchable and one unsearchable cached type
\* exactly one query is sent.
C12_ExactlyOneQueryPerSearchable ==
    (lastOp.op = "smartSearch" /\ ~lastOp.response.isError) =>
        LET list == contentTypesCache[1]
            filter == lastOp.args.contentTypes
            searchable(i) ==
                /\ list[i].name \in DOMAIN contentTypeSchemasCache
                /\ \E j \in 1..Len(contentTypeSchemasCache[list[i].name].fields) :
                      isSearchableTextField(
                          contentTypeSchemasCache[list[i].name].fields[j].type)
            hits == {i \in 1..Len(list) :
                        (filter = Null \/ list[i].name \in filter[1]) /\ searchable(i)}
        IN  /\ \A k \in 1..Len(lastOp.calls) :
                  \E i \in hits : lastOp.calls[k] = Request("search", list[i].queryName)
            /\ Len(lastOp.calls) = Cardinality(hits)
            /\ Len(lastOp.response.results) <= Cardinality(hits)

\* C12 (amended): a successful smartSearch sends queries only for target types
\* whose cached schema has a searchable field, at most one for each, and
\* exactly one for each when every generated query passes the client-side
\* validation; results has at most one entry per query sent.
C12_QueriesOnlySearchableTargets ==
    (lastOp.op = "smartSearch" /\ ~lastOp.response.isError) =>
        LET list == contentTypesCache[1]
            filter == lastOp.args.contentTypes
            searchable(i) ==
                /\ list[i].name \in DOMAIN contentTypeSchemasCache
                /\ \E j \in 1..Len(contentTypeSchemasCache[list[i].name].fields) :
                      isSearchableTextField(
                          contentTypeSchemasCache[list[i].name].fields[j].type)
            hits == {i \in 1..Len(list) :
                        (filter = Null \/ list[i].name \in filter[1]) /\ searchable(i)}
        IN  /\ \A k \in 1..Len(lastOp.calls) :
                  \E i \in hits : lastOp.calls[k] = Request("search", list[i].queryName)
            /\ \A i \in hits :
                  Cardinality({k \in 1..Len(lastOp.calls) :
                      lastOp.calls[k] = Request("search", list[i].queryName)}) <= 1
            /\ (\A i \in 1..Len(lastOp.script) : lastOp.script[i].validity = "valid")
                  => Len(lastOp.calls) = Cardinality(hits)
            /\ Len(lastOp.response.results) <= Len(lastOp.calls)

\* a search over two cached schemas, one without a searchable field, that sent
\* the one query and returned its entry
C12_OneOfTwoQueried ==
    /\ lastOp.op = "smartSearch"
    /\ ~lastOp.response.isError
    /\ lastOp.args.contentTypes = Null
    /\ DOMAIN contentTypeSchemasCache = {Topic, Asset}
    /\ lastOp.calls = <<Request("search", WithCollection(Topic))>>
    /\ Len(lastOp.response.results) = 1

\* C13: a smartSearch that reaches its per-type queries answers without
\* isError whatever becomes of them, and its results hold an entry for a
\* target type exactly when that type's query passed validation and was
\* answered with at least one item: a query that failed (HTTP error, GraphQL
\* errors, unparseable body, thrown exception, rejected by the validation)
\* leaves no entry, as one answered with zero items does, and takes no other
\* type's entry away.
C13_FailureNeverAborts ==
    (lastOp.op = "smartSearch" /\ isCacheAvailable /\ lastOp.args.cfg = Configured) =>
        /\ ~lastOp.response.isError
        /\ LET target == TargetContentTypes(contentTypesCache[1],
                                            lastOp.args.contentTypes)
               found(i) == /\ lastOp.script[i].validity = "valid"
                           /\ lastOp.script[i].answer.kind = "ok"
                           /\ lastOp.script[i].answer.items > 0
           IN  /\ Len(lastOp.script) = Len(target)
               /\ \A i \in 1..Len(target) :
                     found(i) <=> \E k \in 1..Len(lastOp.response.results) :
                         lastOp.response.results[k].contentType = target[i].name

\* a search over topic and note in which the query for topic failed and the
\* entry of note was returned
C13_OneFailedOneFound ==
    /\ lastOp.op = "smartSearch"
    /\ ~lastOp.response.isError
    /\ Len(lastOp.calls) = 2
    /\ \E i \in 1..Len(lastOp.script) :
          lastOp.script[i].answer.kind \in {"http_error", "gql_errors", "bad_json", "throw"}
    /\ Len(lastOp.response.results) = 1
    /\ lastOp.response.results[1].contentType = Note

\* C14: whatever the order in which the queries are answered, the results of
\* smartSearch list the content types in the order of the target content
\* types, the cached list after filtering.
C14_ResultsInTargetOrder ==
    (lastOp.op = "smartSearch" /\ ~lastOp.response.isError) =>
        LET target == TargetContentTypes(contentTypesCache[1],
                                         lastOp.args.contentTypes)
            results == lastOp.response.results
            position(k) == CHOOSE i \in 1..Len(target) :
                               target[i].name = results[k].contentType
        IN  /\ \A k \in 1..Len(results) :
                  \E i \in 1..Len(target) : target[i].name = results[k].contentType
            /\ \A j, k \in 1..Len(results) : j < k => position(j) < position(k)

\* a search whose second query was answered before its first and whose
\* results list the first type before the second
C14_AnsweredOutOfOrder ==
    /\ lastOp.op = "smartSearch"
    /\ ~lastOp.response.isError
    /\ Len(lastOp.order) = 2
    /\ lastOp.order[1] > lastOp.order[2]
    /\ Len(lastOp.response.results) = 2
    /\ lastOp.response.results[1].contentType = Topic
    /\ lastOp.response.results[2].contentType = Note

\* C15: overlapping loads are benign: when the later-started of two
\* overlapping loads finishes and the earlier one has finished too, the cache
\* holds the content-type list that the later-started load alone produces,
\* the list of its own discovery response.
C15_LaterLoadWins ==
    [][(/\ loads[2].pc = "fetching"
        /\ loads'[2].pc = "done"
        /\ ~InFlight(1)) =>
            contentTypesCache' = Some(loads[2].types)]_vars

\* C16: within one load no per-type schema request exists before the
\* discovery response has been received, and the load finishes, setting
\* lastCacheUpdate, only in a step after which every per-type fetch of that
\* pass has succeeded or failed; nothing but a finishing load sets
\* lastCacheUpdate.
C16_DiscoveryThenFanIn ==
    /\ [](\A l \in LoadIds : loads[l].pc # "fetching" => loads[l].req = <<>>)
    /\ [][/\ \A l \in LoadIds :
                (InFlight(l) /\ loads'[l].pc = "done" /\ lastOp'.op = "loadFinished") =>
                    /\ lastCacheUpdate' = Some(clock)
                    /\ Len(lastOp'.outcome) = Len(loads[l].req)
                    /\ \A i \in 1..Len(loads[l].req) :
                          /\ lastOp'.outcome[i] \in {"ok", "fail"}
                          /\ loads[l].req[i].st # "pending" =>
                                lastOp'.outcome[i] = loads[l].req[i].st
                    /\ Cardinality({i \in 1..Len(loads[l].req) :
                                       loads[l].req[i].st = "pending"}) <= 1
          /\ (lastCacheUpdate' # lastCacheUpdate /\ lastCacheUpdate' # Null) =>
                \E l \in LoadIds : /\ InFlight(l)
                                   /\ loads'[l].pc = "done"
                                   /\ lastOp'.op = "loadFinished"
                                   /\ lastOp'.load = l]_vars

\* a load over two content types has finished after one fetch succeeded and
\* the other failed
C16_FinishedAfterBoth ==
    /\ lastOp.op = "loadFinished"
    /\ lastCacheUpdate # Null
    /\ Len(lastOp.outcome) = 2
    /\ "ok" \in Range(lastOp.outcome)
    /\ "fail" \in Range(lastOp.outcome)

\* C17: the snapshot that clear() followed by load() leaves depends on the
\* remote responses of that load alone, whatever ran before, so that two such
\* runs against identical responses give equal counts: after a failed
\* discovery both counts are 0, and after a finished load contentTypesCount is
\* the number of discovered types and schemasCount the number of per-type
\* fetches that succeeded.
C17_ClearLoadSnapshot ==
    /\ lastOp.op = "loadFailed" =>
          getCacheStatus.contentTypesCount = 0 /\ getCacheStatus.schemasCount = 0
    /\ lastOp.op = "loadFinished" =>
          /\ contentTypesCache # Null
          /\ Len(lastOp.outcome) = getCacheStatus.contentTypesCount
          /\ getCacheStatus.schemasCount =
                Cardinality({i \in 1..Len(lastOp.outcome) : lastOp.outcome[i] = "ok"})

\* a second run of clear and load has finished with two content types and
\* one schema
C17_SecondRunFinished ==
    /\ lastOp.op = "loadFinished"
    /\ lastCacheUpdate = Some(2)
    /\ getCacheStatus.contentTypesCount = 2
    /\ getCacheStatus.schemasCount = 1

\* C18: when the cache holds a schema under a bare name and a different one
\* under that name with Collection, getContentTypeSchema answers the bare name
\* with the schema stored under the bare name and the name with Collection
\* with the schema stored under the name with Collection, never with the
\* other's, and from the cache.
C18_NoCrossContamination ==
    \A name \in DOMAIN contentTypeSchemasCache :
        (/\ lastOp.op = "getContentTypeSchema"
         /\ contentTypesCache # Null
         /\ ~EndsWithCollection(name)
         /\ WithCollection(name) \in DOMAIN contentTypeSchemasCache
         /\ contentTypeSchemasCache[name] # contentTypeSchemasCache[WithCollection(name)]
         /\ lastOp.args.contentType \in {name, WithCollection(name)}) =>
            LET asked == lastOp.args.contentType
                other == IF asked = name THEN WithCollection(name) ELSE name
            IN  /\ ~lastOp.response.isError
                /\ lastOp.response.cached
                /\ lastOp.calls = <<>>
                /\ lastOp.response.schema = contentTypeSchemasCache[asked]
                /\ lastOp.response.schema # contentTypeSchemasCache[other]

\* the bare name has been resolved while the cache held a schema under it and
\* another under the name with Collection
C18_BareNextToSuffixed ==
    /\ lastOp.op = "getContentTypeSchema"
    /\ lastOp.args.contentType = Topic
    /\ {Topic, WithCollection(Topic)} \subseteq DOMAIN contentTypeSchemasCache
    /\ lastOp.response.cached
    /\ lastOp.response.schema.contentType = Topic

C20_MissingSettingsAreAnError ==
    (/\ lastOp.op \in {"listContentTypes", "getContentTypeSchema",
                       "executeQuery", "smartSearch"}
     /\ lastOp.args.cfg # Configured
     /\ ~lastOp.response.cached) =>
        /\ lastOp.response.isError
        /\ lastOp.calls = <<>>
        /\ lastOp.op # "smartSearch" =>
              lastOp.response.msg = IF ~lastOp.args.cfg.spaceId
                                    THEN "Space ID is required"
                                    ELSE "CDA token is required"
        /\ (lastOp.op = "smartSearch" /\ isCacheAvailable) =>
              lastOp.response.msg = "Space ID and CDA token are required"

\* listContentTypes has missed the cache and found the access token missing
C20_ListWithoutToken ==
    /\ lastOp.op = "listContentTypes"
    /\ lastOp.args.cfg = [spaceId |-> TRUE, token |-> FALSE]
    /\ ~isCacheAvailable
    /\ lastOp.response.isError
    /\ lastOp.response.msg = "CDA token is required"
    /\ lastOp.calls = <<>>

\* C21 (as stated): buildSearchQuery and getExample send no request, in every
\* cache state.
C21_SynthesisSendsNothing ==
    lastOp.op \in {"buildSearchQuery", "getExample"} => lastOp.calls = <<>>

\* C21 (amended): buildSearchQuery sends no request in any cache state and
\* searches only fields of the cached schema it resolved; getExample sends no
\* request and writes its document from the cached schema when the cache is
\* available and holds the type under the name given or under the name with
\* Collection, and otherwise sends only the one or two type requests of the
\* live schema lookup.
C21_SynthesisFromCache ==
    LET name == lastOp.args.contentType
        hit == /\ isCacheAvailable
               /\ \/ name \in DOMAIN contentTypeSchemasCache
                  \/ /\ ~EndsWithCollection(name)
                     /\ WithCollection(name) \in DOMAIN contentTypeSchemasCache
        cached == IF name \in DOMAIN contentTypeSchemasCache
                  THEN contentTypeSchemasCache[name]
                  ELSE contentTypeSchemasCache[WithCollection(name)]
    IN  /\ lastOp.op = "buildSearchQuery" =>
              /\ lastOp.calls = <<>>
              /\ ~lastOp.response.isError =>
                    /\ hit
                    /\ Range(lastOp.response.query.conditions)
                          \subseteq Range(FieldNames(cached.fields))
        /\ lastOp.op = "getExample" =>
              /\ hit => /\ lastOp.calls = <<>>
                        /\ ~lastOp.response.isError
                        /\ lastOp.response.example.header = cached.contentType
                        /\ Range(lastOp.response.example.scalarFields)
                              \subseteq Range(FieldNames(cached.fields))
              /\ Len(lastOp.calls) <= 2
              /\ \A k \in 1..Len(lastOp.calls) : lastOp.calls[k].kind = "type"

\* getExample has written the example for topic from the cached schema
C21_ExampleFromCache ==
    /\ lastOp.op = "getExample"
    /\ lastOp.args.contentType = Topic
    /\ Topic \in DOMAIN contentTypeSchemasCache
    /\ ~lastOp.response.isError
    /\ lastOp.calls = <<>>
    /\ lastOp.response.example.collectionName = WithCollection(Topic)
    /\ lastOp.response.example.scalarFields = <<"name">>

C23_ArticleQuery ==
    (/\ lastOp.op = "buildSearchQuery"
     /\ lastOp.args.contentType \in {Article, ReportedName(Article)}
     /\ lastOp.args.fields = Null
     /\ contentTypesCache # Null
     /\ \E i \in 1..Len(contentTypesCache[1]) : contentTypesCache[1][i].name = Article
     /\ ReportedName(Article) \in DOMAIN contentTypeSchemasCache) =>
        /\ ~lastOp.response.isError
        /\ lastOp.response.query.operation = <<"Search">> \o ReportedName(Article)
        /\ lastOp.response.query.queryName = WithCollection(Article)
        /\ {"title", "slug", "body"} \subseteq Range(lastOp.response.query.conditions)
        /\ "author" \notin Range(lastOp.response.query.conditions)
        /\ "tags" \notin Range(lastOp.response.query.conditions)

C25_TextHasVariablesAndFields ==
    (lastOp.op = "buildSearchQuery" /\ ~lastOp.response.isError) =>
        /\ "query" \in Range(lastOp.response.parts)
        /\ "variables" \in Range(lastOp.response.parts)
        /\ "fieldsSearched" \in Range(lastOp.response.parts)

\* C26: a request of executeQuery carries the call's own access token when the
\* call supplies one and the environment's token otherwise, and a call that
\* supplies a token is not refused for want of a token.
C26_ArgumentTokenPreferred ==
    lastOp.op = "executeQuery" =>
        /\ \A k \in 1..Len(lastOp.calls) :
              lastOp.calls[k].bearer = IF lastOp.args.cdaToken # Null
                                       THEN lastOp.args.cdaToken[1]
                                       ELSE "env-cda-token"
        /\ lastOp.args.cdaToken # Null =>
              lastOp.response.msg # "CDA token is required"

\* C27: every call through the dispatcher ends in a response and never in an
\* exception: an unknown tool name is answered with isError and the text
\* Error: Unknown tool: name, an exception thrown by a handler with isError
\* and Error: message, and for neither is a request sent.
C27_DispatchAlwaysResponds ==
    lastOp.op \in ToolOps =>
        /\ ~lastOp.response.threw
        /\ lastOp.op = "callTool" =>
              /\ lastOp.response.isError
              /\ lastOp.response.msg = "Error"
              /\ lastOp.calls = <<>>
              /\ lastOp.args.handler = "none" =>
                    lastOp.response.names = <<"Unknown tool", lastOp.args.tool>>
              /\ lastOp.args.handler = "threw" =>
                    lastOp.response.names = <<"message">>

\* the dispatcher has caught the exception of the handler of graphql_query
C27_HandlerExceptionCaught ==
    /\ lastOp.op = "callTool"
    /\ lastOp.args.tool = "graphql_query"
    /\ lastOp.args.handler = "threw"
    /\ lastOp.response.isError
    /\ ~lastOp.response.threw

\* C28: the tools the server announces include smart_search and
\* build_search_query, and a call that names either of them is handed to its
\* handler and not answered as an unknown tool.
C28_SearchToolsDispatched ==
    /\ {"smart_search", "build_search_query"} \subseteq getAllTools
    /\ (/\ lastOp.op = "callTool"
        /\ lastOp.args.tool \in {"smart_search", "build_search_query"}) =>
           lastOp.args.handler # "none"

\* ------------------------------------------------- streamable HTTP server
\* the sessions that can be opened over one run
MaxSessions == 2

\* randomUUID(): the n-th identifier generated
randomUUID(n) == <<"uuid", n>>

\* names every object inherits from Object.prototype
ObjectPrototypeKeys == {<<"constructor">>}

\* the mcp-session-id header of a request: absent, empty, the name of an
\* inherited property, an identifier never generated, or a generated one
SessionHeaders ==
    {Null, Some(<<>>), Some(<<"constructor">>), Some(<<"stale">>)}
        \cup {Some(randomUUID(n)) : n \in 1..MaxSessions}

\* this.transports[sessionId] on a plain object: an own entry, a property
\* inherited from Object.prototype, or undefined
TransportLookup(sessionId) ==
    IF sessionId \in DOMAIN transports
    THEN [kind |-> "own", ref |-> transports[sessionId]]
    ELSE IF sessionId \in ObjectPrototypeKeys
         THEN [kind |-> "inherited", ref |-> 0]
         ELSE [kind |-> "undefined", ref |-> 0]

\* a header value that is neither undefined nor the empty string
Truthy(header) == header # Null /\ header[1] # <<>>

\* what a request was answered with: status and code are those of the
\* response written by the route (status 0 when the transport wrote it),
\* handledBy is the transport whose handleRequest ran (0 if none)
HttpEvent(op, header, initialize, status, code, handledBy) ==
    [Event(op, 0, "", <<>>) EXCEPT
        !.args = [header |-> header, initialize |-> initialize],
        !.response = [status |-> status, code |-> code, handledBy |-> handledBy,
                      sessions |-> 0]]

\* delete obj[key]
MapDelete(m, key) == [k \in (DOMAIN m) \ {key} |-> m[k]]

\* the 400 answer of the POST branch
BadRequest == [status |-> 400, code |-> -32000]

\* the answer of the catch block of the route
InternalError == [status |-> 500, code |-> -32603]

\* StreamableHttpServer.start: loads the GraphQL schema, then listens
start(cfg, answer) ==
    /\ httpPc = "created"
    /\ httpPc' = "listening"
    /\ graphqlSchema' = loadGraphQLSchema(cfg, answer)
    /\ lastOp' = [Event("start", 0, answer, <<>>) EXCEPT !.args.cfg = cfg]
    /\ UNCHANGED <<cacheVars, loads, clock, serverPc, transports, transportObjects, search>>

\* POST /mcp. accepted says whether the new transport accepts the initialize
\* request handed to it (it generates the session id and calls
\* onsessioninitialized) or answers it with an error of its own.
Post(header, initialize, accepted) ==
    /\ httpPc = "listening"
    /\ IF Truthy(header) /\ TransportLookup(header[1]).kind # "undefined"
       THEN LET found == TransportLookup(header[1]) IN
            /\ UNCHANGED <<transports, transportObjects>>
            /\ lastOp' = IF found.kind = "own"
                         THEN HttpEvent("post", header, initialize, 0, 0, found.ref)
                         ELSE HttpEvent("post", header, initialize,
                                        InternalError.status, InternalError.code, 0)
       ELSE IF ~Truthy(header) /\ initialize
       THEN LET ref == Len(transportObjects) + 1
                sessionId == randomUUID(ref) IN
            /\ ref <= MaxSessions
            /\ IF accepted
               THEN /\ transportObjects' = Append(transportObjects,
                           [sessionId |-> Some(sessionId), closed |-> FALSE])
                    /\ transports' = MapSet(transports, sessionId, ref)
               ELSE /\ transportObjects' = Append(transportObjects,
                           [sessionId |-> Null, closed |-> FALSE])
                    /\ UNCHANGED transports
            /\ lastOp' = HttpEvent("post", header, initialize, 0, 0, ref)
       ELSE /\ UNCHANGED <<transports, transportObjects>>
            /\ lastOp' = HttpEvent("post", header, initialize,
                                   BadRequest.status, BadRequest.code, 0)
    /\ UNCHANGED <<cacheVars, graphqlSchema, loads, clock, serverPc, httpPc, search>>

\* a close that leaves the session map alone
CloseTransportKeepingSession(map, ref) == map

\* transport.close(): onclose deletes the session of the transport
CloseTransport(map, ref) ==
    IF transportObjects[ref].sessionId # Null
    THEN MapDelete(map, transportObjects[ref].sessionId[1])
    ELSE map

\* GET /mcp: the stream of an existing session
Get(header) ==
    /\ httpPc = "listening"
    /\ lastOp' =
         IF header = Null \/ header[1] = <<>>
                \/ TransportLookup(header[1]).kind = "undefined"
         THEN HttpEvent("get", header, FALSE, 400, 0, 0)
         ELSE IF TransportLookup(header[1]).kind = "own"
              THEN HttpEvent("get", header, FALSE, 0, 0, TransportLookup(header[1]).ref)
              ELSE HttpEvent("get", header, FALSE,
                             InternalError.status, InternalError.code, 0)
    /\ UNCHANGED <<cacheVars, graphqlSchema, loads, clock, serverPc, httpVars, search>>

\* DELETE /mcp: the transport of the session ends the session and closes
Delete(header) ==
    /\ httpPc = "listening"
    /\ IF header = Null \/ header[1] = <<>>
            \/ TransportLookup(header[1]).kind = "undefined"
       THEN /\ lastOp' = HttpEvent("delete", header, FALSE, 400, 0, 0)
            /\ UNCHANGED <<transports, transportObjects>>
       ELSE IF TransportLookup(header[1]).kind = "own"
       THEN LET ref == TransportLookup(header[1]).ref IN
            /\ transports' = CloseTransport(transports, ref)
            /\ transportObjects' = [transportObjects EXCEPT ![ref].closed = TRUE]
            /\ lastOp' = HttpEvent("delete", header, FALSE, 0, 0, ref)
       ELSE /\ lastOp' = HttpEvent("delete", header, FALSE,
                                   InternalError.status, InternalError.code, 0)
            /\ UNCHANGED <<transports, transportObjects>>
    /\ UNCHANGED <<cacheVars, graphqlSchema, loads, clock, serverPc, httpPc, search>>

\* GET /health
Health ==
    /\ httpPc = "listening"
    /\ lastOp' = [HttpEvent("health", Null, FALSE, 200, 0, 0)
                    EXCEPT !.response.sessions = Cardinality(DOMAIN transports)]
    /\ UNCHANGED <<cacheVars, graphqlSchema, loads, clock, serverPc, httpVars, search>>

\* StreamableHttpServer.stop: closes every stored transport, then the server
stop ==
    /\ httpPc = "listening"
    /\ httpPc' = "stopped"
    /\ transports' = <<>>
    /\ transportObjects' =
         [ref \in DOMAIN transportObjects |->
            IF \E id \in DOMAIN transports : transports[id] = ref
            THEN [transportObjects[ref] EXCEPT !.closed = TRUE]
            ELSE transportObjects[ref]]
    /\ lastOp' = Event("stop", 0, "", <<>>)
    /\ UNCHANGED <<cacheVars, graphqlSchema, loads, clock, serverPc, search>>

NextHttp ==
    \/ \E cfg \in Envs : \E answer \in IntrospectionAnswers(cfg) : start(cfg, answer)
    \/ \E header \in SessionHeaders, initialize \in BOOLEAN, accepted \in BOOLEAN :
            Post(header, initialize, accepted)
    \/ \E header \in SessionHeaders : Get(header)
    \/ \E header \in SessionHeaders : Delete(header)
    \/ Health
    \/ stop

SpecHttp == Init /\ [][NextHttp]_vars

\* C29: a POST to /mcp is handed to a transport only if it carries the id of
\* a session stored in the session map, or carries no session id and is an
\* initialize request; every other POST is answered with status 400 and
\* JSON-RPC error code -32000, creates no session and reaches no transport.
C29_PostGate ==
    [][LET entitled ==
             \/ /\ Truthy(lastOp'.args.header)
                /\ lastOp'.args.header[1] \in DOMAIN transports
             \/ /\ ~Truthy(lastOp'.args.header)
                /\ lastOp'.args.initialize
       IN  lastOp'.op = "post" =>
             /\ lastOp'.response.handledBy # 0 => entitled
             /\ ~entitled =>
                  /\ lastOp'.response.status = 400
                  /\ lastOp'.response.code = -32000
                  /\ lastOp'.response.handledBy = 0
                  /\ transports' = transports
                  /\ transportObjects' = transportObjects]_vars

\* --------------------------------------------------- field type discovery
\* the wrappers around the named type of a declared field type
MaxWrappers == 4

\* the nestings of NON_NULL and LIST a schema can declare, outermost first:
\* NON_NULL never wraps NON_NULL
RECURSIVE WrapperSeqs(_)
WrapperSeqs(n) ==
    IF n = 0 THEN {<<>>}
    ELSE WrapperSeqs(n - 1) \cup
         {<<k>> \o w : k \in {"NON_NULL", "LIST"},
                       w \in {v \in WrapperSeqs(n - 1) : Len(v) = n - 1}}

NamedTypes ==
    {Level("SCALAR", <<s>>) : s \in ScalarTypes}
        \cup {Level("OBJECT", <<"Article">>), Level("OBJECT", <<"Asset">>)}

\* the field types of the remote schema, as the sequence of their levels
DeclaredTypes ==
    LET WellFormed(w) ==
            \A i \in 1..(Len(w) - 1) : ~(w[i] = "NON_NULL" /\ w[i + 1] = "NON_NULL")
    IN  {[i \in 1..Len(w) |-> Level(w[i], <<>>)] \o <<leaf>> :
            w \in {v \in WrapperSeqs(MaxWrappers) : WellFormed(v)}, leaf \in NamedTypes}

\* The type stored for a field: the response carries the levels the query
\* selects, and the mapping over __type.fields formats them.
DiscoveredType(declared) == formatGraphQLType(Truncate(declared))

\* loadContentTypeSchemaFromAPI answered for a type with one field
discoverField(declared) ==
    /\ lastOp' = [Event("discoverField", 0, "found", <<>>) EXCEPT
                    !.args = [declared |-> declared],
                    !.response = [OkResponse EXCEPT !.schema =
                        [contentType |-> ReportedName(Article),
                         fields |-> <<Field("field", DiscoveredType(declared))>>]]]
    /\ UNCHANGED <<cacheVars, graphqlSchema, loads, clock, serverPc, httpVars, search>>

NextFields == \E declared \in DeclaredTypes : discoverField(declared)

SpecFields == Init /\ [][NextFields]_vars

\* C30: whatever nesting of NON_NULL and LIST the schema declares around a
\* named type, the type string stored for the field has one "!" for each
\* NON_NULL and one pair of brackets for each LIST and ends at the name of
\* the leaf type.
C30_EveryWrapperUnwrapped ==
    lastOp.op = "discoverField" =>
        LET declared == lastOp.args.declared
            type == lastOp.response.schema.fields[1].type
            Count(s, x) == Cardinality({i \in 1..Len(s) : s[i] = x})
            Wrappers(kind) ==
                Cardinality({i \in 1..Len(declared) : declared[i].kind = kind})
        IN  /\ Count(type, "!") = Wrappers("NON_NULL")
            /\ Count(type, "[") = Wrappers("LIST")
            /\ Count(type, "]") = Wrappers("LIST")
            /\ Count(type, declared[Len(declared)].name[1]) = 1
            /\ Count(type, "Unknown") = 0

\* C31: once isCacheAvailable() is true it stays true through every later
\* step of a load, whether the load succeeds, fails for some types or fails
\* at discovery; the only step that makes the cache unavailable is clearCache.
C31_AvailableUntilCleared ==
    [][(isCacheAvailable /\ ~isCacheAvailable') => lastOp'.op = "clear"]_vars

\* a load failed at discovery over a cache that an earlier load made available
C31_FailedLoadOverAvailableCache ==
    /\ lastOp.op = "loadFailed"
    /\ isCacheAvailable

\* C32: when clearCache runs while a load is in flight, nothing that load
\* fetches appears in the cache afterwards: the step the load takes right
\* after the clear leaves the content-type list, the schemas and the update
\* time as the clear left them.
C32_ClearIsolatesInFlightLoad ==
    [][\A l \in LoadIds :
          (lastOp.op = "clear" /\ InFlight(l) /\ lastOp'.load = l
                /\ lastOp'.op # "loadStart")
            => /\ contentTypesCache' = Null
               /\ contentTypeSchemasCache' = EmptyMap
               /\ lastCacheUpdate' = Null]_vars

\* C33: a load never removes an entry from the schema map: every step other
\* than clearCache keeps every key the map holds, so the schema of a type
\* that a later discovery no longer lists is still found by a cache lookup.
C33_SchemaKeysOnlyGrow ==
    [][lastOp'.op # "clear" =>
          \A key \in DOMAIN contentTypeSchemasCache :
              key \in DOMAIN contentTypeSchemasCache']_vars

\* a refresh has finished whose discovery no longer lists topic, and the
\* schema cached for topic by an earlier load is still returned
C33_UnlistedSchemaStillCached ==
    /\ lastOp.op = "loadFinished"
    /\ contentTypesCache # Null
    /\ \A i \in 1..Len(contentTypesCache[1]) : contentTypesCache[1][i].name # Topic
    /\ getCachedContentTypeSchema(Topic) # Null

\* ------------------------------------------- smartSearch across its awaits
\* the answers to one search query: items, none, or an HTTP error
AwaitedAnswers == {[kind |-> "ok", items |-> 1], [kind |-> "ok", items |-> 0],
                   [kind |-> "http_error", items |-> 0]}

\* a callback that looks the schema up again when its query is answered
SearchEntryFromCache(ct, textFields, answer) ==
    LET exec == executeQueryResult(ct.queryName, Configured, "valid", answer)
    IN  IF ~exec.response.isError /\ exec.response.items > 0 /\ Queried(ct)
        THEN << [contentType |-> ct.name, items |-> exec.response.items,
                 fields |-> FieldNames(TextFields(ct)[1])] >>
        ELSE <<>>

\* the callback of targetContentTypes.map after its await: the entry built
\* from the answer and from textFields, the constant the callback computed
\* before it sent the query
SearchEntry(ct, textFields, answer) ==
    LET exec == executeQueryResult(ct.queryName, Configured, "valid", answer)
    IN  IF ~exec.response.isError /\ exec.response.items > 0
        THEN << [contentType |-> ct.name, items |-> exec.response.items,
                 fields |-> FieldNames(textFields)] >>
        ELSE <<>>

\* what a finished call is recorded as: its arguments, the cache it started
\* from, its response, the requests it sent and what they were answered
SearchFinished(s, cfg) ==
    LET \* the response of a call whose promises have all settled
        response == [OkResponse EXCEPT !.results = Concat(s.results, 1),
                                       !.total = Len(s.target),
                                       !.withResults = Len(Concat(s.results, 1))]
        \* one request for each target whose callback went on to executeQuery
        calls == Concat([i \in 1..Len(s.target) |->
                           IF s.st[i] = "skipped" THEN <<>>
                           ELSE <<Request("search", s.target[i].queryName)>>], 1)
    IN  [ToolCall("smartSearch",
                  [contentType |-> <<>>, contentTypes |-> s.filter, fields |-> Null,
                   cfg |-> cfg, atStart |-> s.atStart],
                  response, calls)
            EXCEPT !.script = s.answers]

\* smartSearch up to its await: it checks the cache and the settings, selects
\* the target types and runs every callback up to the fetch of its query.
\* The queries are valid; a call with nothing to await returns at once.
smartSearchBegin(filter) ==
    /\ search.pc = "idle"
    /\ \E cfg \in IF isCacheAvailable THEN Envs ELSE {Unread} :
          IF ~isCacheAvailable \/ cfg # Configured
          THEN /\ lastOp' = ToolCall("smartSearch", Args(<<>>, filter, Null, cfg),
                                smartSearchResult(filter, cfg, <<>>, <<>>, <<>>).response,
                                <<>>)
               /\ UNCHANGED search
          ELSE LET target == TargetContentTypes(getCachedContentTypes[1], filter)
                   begun ==
                     [pc |-> "waiting", filter |-> filter, target |-> target,
                      textFields |-> [i \in 1..Len(target) |->
                                        IF Queried(target[i])
                                        THEN TextFields(target[i])[1] ELSE <<>>],
                      st |-> [i \in 1..Len(target) |->
                                IF Queried(target[i]) THEN "pending" ELSE "skipped"],
                      answers |-> [i \in 1..Len(target) |-> NoAnswer],
                      results |-> [i \in 1..Len(target) |-> <<>>],
                      atStart |-> [contentTypes |-> contentTypesCache,
                                   schemas |-> contentTypeSchemasCache]]
               IN  IF \E i \in 1..Len(target) : Queried(target[i])
                   THEN /\ search' = begun
                        /\ lastOp' = Event("searchBegin", 0, "", <<>>)
                   ELSE /\ lastOp' = SearchFinished(begun, cfg)
                        /\ UNCHANGED search
    /\ UNCHANGED <<cacheVars, graphqlSchema, loads, clock, serverPc, httpVars>>

\* the query for the i-th target type is answered; the call returns when the
\* last of its queries has been answered
smartSearchAnswer(i, answer) ==
    /\ search.pc = "waiting"
    /\ i \in 1..Len(search.target)
    /\ search.st[i] = "pending"
    /\ LET answered ==
             [search EXCEPT
                !.st[i] = "done",
                !.answers[i] = answer,
                !.results[i] = SearchEntry(search.target[i], search.textFields[i],
                                           answer)]
       IN  IF \A k \in 1..Len(answered.st) : answered.st[k] # "pending"
           THEN /\ search' = IdleSearch
                /\ lastOp' = SearchFinished(answered, Configured)
           ELSE /\ search' = answered
                /\ lastOp' = Event("searchAnswer", 0, answer.kind, <<>>)
    /\ UNCHANGED <<cacheVars, graphqlSchema, loads, clock, serverPc, httpVars>>

\* smartSearch over a cache that is loaded and cleared while the call awaits
NextAwait ==
    \/ clearCache
    \/ \E l \in LoadIds : LoadStart(l)
    \/ \E l \in LoadIds, kind \in {"ok", "http_error"} :
          DiscoveryResponse(l, [kind |-> kind,
                                roots |-> IF kind = "ok" THEN ThreeRoots ELSE <<>>])
    \/ \E l \in LoadIds : \E i \in 1..Len(loads[l].req), answer \in {"found", "http_error"} :
          SchemaResponse(l, i, answer)
    \/ \E filter \in FanOutFilters : smartSearchBegin(filter)
    \/ \E i \in 1..Len(search.target), answer \in AwaitedAnswers :
          smartSearchAnswer(i, answer)

SpecAwait == Init /\ [][NextAwait]_vars

\* C34: a smartSearch call works on the cache it found when it started: the
\* types it queries are the target types that had a text field in the schemas
\* cached at that moment, and every results entry names one of those types
\* with the text fields it had then, and every such type whose query found
\* items has an entry, whatever load or clear ran meanwhile.
C34_SearchWorksOnSnapshot ==
    (lastOp.op = "smartSearch" /\ ~lastOp.response.isError) =>
        LET atStart == lastOp.args.atStart
            target == TargetContentTypes(atStart.contentTypes[1],
                                         lastOp.args.contentTypes)
            TextAtStart(ct) ==
                IF ct.name \in DOMAIN atStart.schemas
                THEN LET fields == atStart.schemas[ct.name].fields
                     IN  FieldNames(FilterSeq(fields,
                            {f \in Range(fields) : isSearchableTextField(f.type)}))
                ELSE <<>>
            Found(i) == /\ TextAtStart(target[i]) # <<>>
                        /\ lastOp.script[i].kind = "ok"
                        /\ lastOp.script[i].items > 0
        IN  /\ {lastOp.calls[k].name : k \in 1..Len(lastOp.calls)}
                 = {target[i].queryName :
                       i \in {j \in 1..Len(target) : TextAtStart(target[j]) # <<>>}}
            /\ \A k \in 1..Len(lastOp.response.results) :
                  \E i \in 1..Len(target) :
                      /\ lastOp.response.results[k].contentType = target[i].name
                      /\ lastOp.response.results[k].fields = TextAtStart(target[i])
                      /\ Found(i)
            /\ \A i \in 1..Len(target) :
                  Found(i) => \E k \in 1..Len(lastOp.response.results) :
                      lastOp.response.results[k].contentType = target[i].name

\* a call returned results after the cache it started from had been cleared
C34_ClearedWhileAwaiting ==
    /\ lastOp.op = "smartSearch"
    /\ ~lastOp.response.isError
    /\ lastOp.response.results # <<>>
    /\ lastOp.args.atStart.schemas # EmptyMap
    /\ contentTypeSchemasCache = EmptyMap

\* the six tools next to a cache loaded from an API that answers a schema
\* request with the type or an HTTP error
NextFrame ==
    \/ clearCache
    \/ \E l \in LoadIds : LoadStart(l)
    \/ \E l \in LoadIds, answer \in DiscoveryAnswers : DiscoveryResponse(l, answer)
    \/ \E l \in LoadIds : \E i \in 1..Len(loads[l].req), answer \in {"found", "http_error"} :
          SchemaResponse(l, i, answer)
    \/ listContentTypes
    \/ \E contentType \in ArgNames : getContentTypeSchema(contentType)
    \/ \E contentType \in ArgNames, includeRelations \in BOOLEAN :
          getExample(contentType, includeRelations)
    \/ \E queryName \in QueryNames : executeQuery(queryName)
    \/ \E filter \in Filters : smartSearch(filter)
    \/ \E contentType \in ArgNames : buildSearchQuery(contentType, Null)

SpecFrame == Init /\ [][NextFrame]_vars

\* C35: only a load and clearCache change the cache: a call of
\* listContentTypes, getContentTypeSchema, getExample, executeQuery,
\* smartSearch or buildSearchQuery leaves the content-type list, the schema
\* map and the update time as they were, also when it fetched a list or a
\* schema from the API.
C35_ToolsLeaveTheCacheAlone ==
    [][lastOp'.op \in ToolOps =>
          /\ contentTypesCache' = contentTypesCache
          /\ contentTypeSchemasCache' = contentTypeSchemasCache
          /\ lastCacheUpdate' = lastCacheUpdate]_vars

\* getContentTypeSchema fetched a schema from the API and the schema map
\* does not hold it
C35_LiveSchemaNotStored ==
    /\ lastOp.op = "getContentTypeSchema"
    /\ ~lastOp.response.isError
    /\ lastOp.calls # <<>>
    /\ lastOp.response.schema.contentType \notin DOMAIN contentTypeSchemasCache

\* C36: in every smartSearch response that is not an error,
\* totalContentTypesSearched is the number of target types (the cached types
\* the filter keeps, skipped ones included), contentTypesWithResults is the
\* length of results, no two results entries name the same type and each
\* names a target type, and contentTypesWithResults is at most the number of
\* queries sent, which is at most totalContentTypesSearched.
C36_SearchCounters ==
    (lastOp.op = "smartSearch" /\ ~lastOp.response.isError) =>
        LET response == lastOp.response
            listed == contentTypesCache[1]
            filter == lastOp.args.contentTypes
            targets == {i \in 1..Len(listed) :
                           filter = Null \/ listed[i].name \in filter[1]}
        IN  /\ response.total = Cardinality(targets)
            /\ response.withResults = Len(response.results)
            /\ \A j, k \in 1..Len(response.results) :
                  j # k => response.results[j].contentType # response.results[k].contentType
            /\ \A k \in 1..Len(response.results) :
                  \E i \in targets : listed[i].name = response.results[k].contentType
            /\ response.withResults <= Len(lastOp.calls)
            /\ Len(lastOp.calls) <= response.total

\* of three target types one was skipped, two were queried and one had items
C36_SkippedQueriedAndFound ==
    /\ lastOp.op = "smartSearch"
    /\ ~lastOp.response.isError
    /\ lastOp.response.total = 3
    /\ Len(lastOp.calls) = 2
    /\ lastOp.response.withResults = 1

\* C37: the session map holds a session id exactly while the transport that
\* generated it is initialized and not closed, and maps the id to that
\* transport; /health reports the number of such transports; an id enters
\* the map only with an initialize POST that carries no session id and that
\* its new transport accepts, and leaves it only when its transport closes.
C37_SessionMapTracksOpenTransports ==
    /\ [](LET open == {ref \in DOMAIN transportObjects :
                          /\ transportObjects[ref].sessionId # Null
                          /\ ~transportObjects[ref].closed}
          IN  /\ DOMAIN transports = {transportObjects[ref].sessionId[1] : ref \in open}
              /\ \A id \in DOMAIN transports :
                    /\ transports[id] \in open
                    /\ transportObjects[transports[id]].sessionId = Some(id)
              /\ lastOp.op = "health" => lastOp.response.sessions = Cardinality(open))
    /\ [][/\ \A id \in (DOMAIN transports') \ (DOMAIN transports) :
                /\ lastOp'.op = "post"
                /\ ~Truthy(lastOp'.args.header)
                /\ lastOp'.args.initialize
                /\ lastOp'.response.handledBy = transports'[id]
                /\ transports'[id] \notin DOMAIN transportObjects
          /\ \A id \in (DOMAIN transports) \ (DOMAIN transports') :
                /\ ~transportObjects[transports[id]].closed
                /\ transportObjects'[transports[id]].closed]_vars

\* /health counted one session while another one had been opened and closed
C37_OneOpenOneClosed ==
    /\ lastOp.op = "health"
    /\ lastOp.response.sessions = 1
    /\ \E ref \in DOMAIN transportObjects :
          transportObjects[ref].sessionId # Null /\ transportObjects[ref].closed

====
